---- MODULE Spec2Model ----
\* Reconciliation engines of the Spotify <-> Notion album database
\* integration (src/src/jobs.ts, src/src/helpers.ts).
\*
\* Text is modelled as a sequence of one-character strings so that
\* trim / toLowerCase / split / join are computed, not assumed.
EXTENDS Integers, Sequences, FiniteSets, TLC

VARIABLES
    pages,          \* the Notion database: sequence of page records, page id = index
    pending,        \* page-creation requests issued to Notion and not yet carried out
    notionCalls,    \* pages.create / pages.update requests issued by the job that ran last
    spotifyCalls,   \* PUT / DELETE /me/albums requests issued by the job that ran last
    run,            \* the job that ran last: its inputs, what it read, how it ended
    jobsRun,        \* number of jobs that have returned, where jobs run one after another
    paging,         \* getAllDatabasePages in progress: queries sent, responses received
    saved,          \* getSavedUserAlbums in progress: probe, page requests, arrivals
    call,           \* a helper applied to an input: the input and what it returned
    library,        \* the add / remove chunk requests of a library filter run
    cli,            \* the command-line dashboard: where main is, how the process ended
    cron            \* the periodic job: scheduler state and the runs of runAlbumDBJobs

vars == <<pages, pending, notionCalls, spotifyCalls, run,
          jobsRun, paging, saved, call, library, cli, cron>>

\* the state the reconciliation engines work on
engineVars == <<pages, pending, notionCalls, spotifyCalls, run>>

\* the state the reconciliation engines never touch
restVars == <<jobsRun, paging, saved, call, library, cli, cron>>

\* a component that is not running
Idle == [pc |-> "idle"]

RestIdle ==
    /\ jobsRun = 0
    /\ paging = Idle
    /\ saved = Idle
    /\ call = Idle
    /\ library = Idle
    /\ cli = Idle
    /\ cron = Idle

----------------------------------------------------------------------------
\* Bounds of the model

MaxInitPages == 2       \* pages in the database before an import
MaxStalePages == 2      \* pages in the database before a stale-album run
MaxSaved == 2           \* length of a saved-album list handed to a job
MaxFilterPages == 2     \* pages in the database before a library-filter run
MaxDedupPages == 3      \* pages in the database before a duplicate-removal run
MaxSnapshot == 2        \* length of a prior saved-album snapshot

----------------------------------------------------------------------------
\* Text

Range(s) == {s[i] : i \in DOMAIN s}

\* Array.prototype.includes
Includes(s, x) == \E i \in DOMAIN s : s[i] = x

IsSpace(c) == c = " "

RECURSIVE TrimStart(_)
TrimStart(s) ==
    IF s # <<>> /\ IsSpace(Head(s)) THEN TrimStart(Tail(s)) ELSE s

RECURSIVE TrimEnd(_)
TrimEnd(s) ==
    IF s # <<>> /\ IsSpace(s[Len(s)]) THEN TrimEnd(SubSeq(s, 1, Len(s) - 1)) ELSE s

\* String.prototype.trim
Trim(s) == TrimEnd(TrimStart(s))

LowerChar(c) ==
    CASE c = "A" -> "a"
      [] c = "B" -> "b"
      [] c = "C" -> "c"
      [] c = "D" -> "d"
      [] c = "E" -> "e"
      [] c = "F" -> "f"
      [] c = "G" -> "g"
      [] c = "H" -> "h"
      [] c = "I" -> "i"
      [] c = "J" -> "j"
      [] c = "K" -> "k"
      [] c = "L" -> "l"
      [] c = "M" -> "m"
      [] c = "N" -> "n"
      [] c = "O" -> "o"
      [] c = "P" -> "p"
      [] c = "Q" -> "q"
      [] c = "R" -> "r"
      [] c = "S" -> "s"
      [] c = "T" -> "t"
      [] c = "U" -> "u"
      [] c = "V" -> "v"
      [] c = "W" -> "w"
      [] c = "X" -> "x"
      [] c = "Y" -> "y"
      [] c = "Z" -> "z"
      [] OTHER -> c

\* String.prototype.toLowerCase
ToLowerCase(s) == [i \in DOMAIN s |-> LowerChar(s[i])]

\* String.prototype.split with a one-character separator
RECURSIVE Split(_, _)
Split(s, d) ==
    IF ~Includes(s, d)
    THEN <<s>>
    ELSE LET i == CHOOSE k \in DOMAIN s : s[k] = d /\ \A j \in 1..(k - 1) : s[j] # d
         IN  <<SubSeq(s, 1, i - 1)>> \o Split(SubSeq(s, i + 1, Len(s)), d)

\* Array.prototype.join
RECURSIVE Join(_, _)
Join(list, delim) ==
    IF list = <<>> THEN <<>>
    ELSE IF Len(list) = 1 THEN list[1]
    ELSE list[1] \o delim \o Join(Tail(list), delim)

\* [...new Set(list)]: first occurrences, in insertion order
RECURSIVE Dedup(_)
Dedup(list) ==
    IF list = <<>> THEN <<>>
    ELSE LET front == Dedup(SubSeq(list, 1, Len(list) - 1))
             last == list[Len(list)]
         IN  IF Includes(front, last) THEN front ELSE Append(front, last)

\* Array.prototype.flat on a list of lists
RECURSIVE Flat(_)
Flat(lists) ==
    IF lists = <<>> THEN <<>> ELSE Head(lists) \o Flat(Tail(lists))

\* the elements of a finite set of numbers, in ascending order
RECURSIVE Ascending(_)
Ascending(S) ==
    IF S = {} THEN <<>>
    ELSE LET m == CHOOSE x \in S : \A y \in S : x <= y
         IN  <<m>> \o Ascending(S \ {m})

\* sequences over S of length at most n
SeqUpTo(S, n) == UNION {[1..k -> S] : k \in 0..n}

----------------------------------------------------------------------------
\* helpers.ts

arrayIntersect(a, b) == SelectSeq(a, LAMBDA x : x \in Range(b))

arrayDifference(a, b) == SelectSeq(a, LAMBDA x : x \notin Range(b))

RECURSIVE chunkArray(_, _)
chunkArray(array, chunkSize) ==
    IF array = <<>> THEN <<>>
    ELSE IF Len(array) <= chunkSize THEN <<array>>
    ELSE <<SubSeq(array, 1, chunkSize)>>
            \o chunkArray(SubSeq(array, chunkSize + 1, Len(array)), chunkSize)

spotifyChunkSizeLimit == 20

makeStringFromAlbumIDs(albumIDs) == Join(albumIDs, <<",", " ">>)

getSpotifyAlbumIDsFromNotionPage(page) ==
    LET parts == Split(page.albumId, ",")
    IN  [i \in DOMAIN parts |-> Trim(parts[i])]

getArtistStringFromAlbum(album) == Join(album.artists, <<",", " ">>)

\* variant: the artist is trimmed and not lowercased
createAlbumKey_ArtistAsWritten(albumName, albumArtist) ==
    ToLowerCase(Trim(albumName)) \o <<" ", "-", " ">> \o Trim(albumArtist)

createAlbumKey(albumName, albumArtist) ==
    ToLowerCase(Trim(albumName)) \o <<" ", "-", " ">> \o ToLowerCase(Trim(albumArtist))

createAlbumKeyFromSpotifyAlbum(album) ==
    createAlbumKey(album.name, getArtistStringFromAlbum(album))

\* the key of a page, as importSavedSpotifyAlbums and
\* updateStaleNotionAlbumsFromSpotify compute it
PageKey(page) == createAlbumKey(page.name, page.artist)

\* reduce((prev, current) => current + prev, 0)
RECURSIVE Sum(_)
Sum(list) == IF list = <<>> THEN 0 ELSE Head(list) + Sum(Tail(list))

DurationsOf(tracks) == [i \in DOMAIN tracks |-> tracks[i].duration_ms]

getFastAlbumRuntime(album) == Sum(DurationsOf(album.tracks.items))

\* variant: a release of exactly 30 minutes is no longer an EP
determineAlbumType_Under30(album) ==
    LET albumType == album.album_type
        maxEPLen == 30 * 60 * 1000
        minEPTracks == 4
        maxEPTracks == 6
    IN  IF albumType = "album" \/ albumType = "compilation" THEN "ALBUM"
        ELSE IF /\ album.total_tracks >= minEPTracks /\ album.total_tracks <= maxEPTracks
                /\ getFastAlbumRuntime(album) < maxEPLen
             THEN "EP"
             ELSE "SINGLE"

determineAlbumType(album) ==
    LET albumType == album.album_type
        maxEPLen == 30 * 60 * 1000
        minEPTracks == 4
        maxEPTracks == 6
    IN  IF albumType = "album" \/ albumType = "compilation" THEN "ALBUM"
        ELSE IF /\ album.total_tracks >= minEPTracks /\ album.total_tracks <= maxEPTracks
                /\ getFastAlbumRuntime(album) <= maxEPLen
             THEN "EP"
             ELSE "SINGLE"

\* spotify.albums.tracks(album.id, undefined, limit, offset), its items: the
\* catalog's listing of the release from position offset on
albumTracks(album, limit, offset) ==
    SubSeq(album.catalog_tracks, offset + 1,
           IF offset + limit < Len(album.catalog_tracks)
           THEN offset + limit ELSE Len(album.catalog_tracks))

\* Math.ceil(a / b) for a >= 0, b > 0
Ceil(a, b) == (a + b - 1) \div b

\* The track pages are requested together and flattened in request order.
getAllAlbumTracks(album) ==
    LET totalTracks == album.total_tracks
    IN  IF totalTracks = album.tracks.total
        THEN album.tracks.items
        ELSE Flat([i \in 1..Ceil(totalTracks, spotifyChunkSizeLimit) |->
                      albumTracks(album, spotifyChunkSizeLimit,
                                  (i - 1) * spotifyChunkSizeLimit)])

getAlbumDuration(album) == Sum(DurationsOf(getAllAlbumTracks(album)))

----------------------------------------------------------------------------
\* jobs.ts: getAllDatabasePages.  A database query returns the pages that are
\* not archived, in database order; each carries its id.

getAllDatabasePages ==
    LET live == Ascending({i \in DOMAIN pages : ~pages[i].archived})
    IN  [k \in DOMAIN live |-> pages[live[k]]]

----------------------------------------------------------------------------
\* Data the jobs work on

\* catalog album IDs
Id1 == <<"1">>
Id2 == <<"2">>
Id3 == <<"3">>

\* The album object the catalog returns for a release.  durations lists the
\* release's tracks as the catalog holds them; total_tracks is the track count
\* the release declares; tracks is the first page of the listing, which
\* embeds at most 50 tracks and reports the length of the whole listing.
AlbumObject(id, name, artists, url, markets, album_type, total_tracks, durations) ==
    LET listing == [i \in DOMAIN durations |-> [duration_ms |-> durations[i]]]
    IN  [id |-> id, name |-> name, artists |-> artists, url |-> url,
         available_markets |-> markets, album_type |-> album_type,
         total_tracks |-> total_tracks,
         tracks |-> [total |-> Len(listing),
                     items |-> SubSeq(listing, 1, IF Len(listing) < 50
                                                  THEN Len(listing) ELSE 50)],
         catalog_tracks |-> listing]

\* SavedAlbum.album, reduced to the fields the engines read.  Album1 and
\* Album2 are two releases of one title (the same key, different IDs); only
\* Album2 is available in a market.
Album1 == AlbumObject(Id1, <<"a">>, <<<<"b">>>>, <<"u", "1">>, 0, "album", 2, <<3, 4>>)
Album2 == AlbumObject(Id2, <<"A", " ">>, <<<<"B">>>>, <<"u", "2">>, 1, "album", 1, <<5>>)
Album3 == AlbumObject(Id3, <<"c">>, <<<<"b">>, <<"c">>>>, <<"u", "3">>, 1, "single", 1, <<2>>)

AlbumPool == {Album1, Album2, Album3}

SavedAlbumLists == SeqUpTo(AlbumPool, MaxSaved)

\* a page of the database
\* the number property of the duration column is null
NoDuration == <<>>

Page(id, name, artist, albumId, url, rating, time) ==
    [id |-> id, name |-> name, artist |-> artist, albumId |-> albumId, url |-> url,
     rating |-> rating, last_edited_time |-> time, archived |-> FALSE,
     duration |-> NoDuration]

\* the select property of the rating column is null
Unrated == "null"

\* a database made of the given page contents: ids are the positions
Database(contents) == [i \in DOMAIN contents |-> [contents[i] EXCEPT !.id = i]]

NoRun == [job |-> "none", savedAlbums |-> <<>>, overwriteIDs |-> FALSE,
          databasePages |-> <<>>, selected |-> <<>>,
          add |-> <<>>, remove |-> <<>>, snapshot |-> <<>>, hasSnapshot |-> FALSE,
          ratingColumn |-> FALSE, albumPageMap |-> <<>>,
          outcome |-> "none", message |-> <<>>]

MaxTimeOf(ps) == IF ps = <<>> THEN 0
                 ELSE CHOOSE t \in {ps[i].last_edited_time : i \in DOMAIN ps} :
                        \A i \in DOMAIN ps : ps[i].last_edited_time <= t

\* no database, no job: the engines are not part of the behaviour
EnginesIdle ==
    /\ pages = <<>>
    /\ pending = <<>>
    /\ notionCalls = <<>>
    /\ spotifyCalls = <<>>
    /\ run = NoRun

----------------------------------------------------------------------------
\* jobs.ts: importSavedSpotifyAlbums

existingAlbumIDs(existingDatabasePages) ==
    UNION {Range(getSpotifyAlbumIDsFromNotionPage(existingDatabasePages[i])) :
             i \in DOMAIN existingDatabasePages}

existingAlbumProperties(existingDatabasePages) ==
    {PageKey(existingDatabasePages[i]) : i \in DOMAIN existingDatabasePages}

\* variant: albums are filtered on their ID only
albumsToImport_IdOnly(savedAlbums, existingDatabasePages) ==
    SelectSeq(savedAlbums, LAMBDA album :
        album.id \notin existingAlbumIDs(existingDatabasePages))

albumsToImport(savedAlbums, existingDatabasePages) ==
    SelectSeq(savedAlbums, LAMBDA album :
        /\ album.id \notin existingAlbumIDs(existingDatabasePages)
        /\ createAlbumKey(album.name, getArtistStringFromAlbum(album))
              \notin existingAlbumProperties(existingDatabasePages))

\* variant: only the title of the album is written to the new page
notionAPIParams_TitleOnly(album) ==
    [name |-> album.name, artist |-> <<>>, albumId |-> <<>>, url |-> <<>>,
     duration |-> <<getAlbumDuration(album)>>]

\* the properties of the CreatePageParameters built for an album
notionAPIParams(album) ==
    [name |-> album.name, artist |-> Join(album.artists, <<",", " ">>),
     albumId |-> album.id, url |-> album.url,
     duration |-> <<getAlbumDuration(album)>>]

\* The import job, run once: reads the database, selects the albums to
\* import and issues one pages.create per selected album.  The saved albums
\* are the catalog's, each with its artwork.
ImportSavedSpotifyAlbums(savedAlbums) ==
    /\ run.job = "none"
    /\ LET existingDatabasePages == getAllDatabasePages
           toImport == albumsToImport(savedAlbums, existingDatabasePages)
       IN  /\ pending' = pending \o [i \in DOMAIN toImport |-> notionAPIParams(toImport[i])]
           /\ run' = [NoRun EXCEPT !.job = "import", !.savedAlbums = savedAlbums,
                                   !.databasePages = existingDatabasePages,
                                   !.selected = toImport, !.outcome = "ok"]
           /\ notionCalls' = [i \in DOMAIN toImport |->
                                 [op |-> "create", page_id |-> 0,
                                  albumId |-> toImport[i].id, url |-> toImport[i].url]]
    /\ spotifyCalls' = <<>>
    /\ UNCHANGED pages
    /\ UNCHANGED restVars

\* Notion carries out one of the page creations it was sent.
NotionCreatesPage ==
    \E k \in DOMAIN pending :
        /\ pages' = Append(pages,
              [Page(Len(pages) + 1, pending[k].name, pending[k].artist,
                    pending[k].albumId, pending[k].url, Unrated, MaxTimeOf(pages) + 1)
                 EXCEPT !.duration = pending[k].duration])
        /\ pending' = [i \in 1..(Len(pending) - 1) |->
                          IF i < k THEN pending[i] ELSE pending[i + 1]]
        /\ UNCHANGED <<notionCalls, spotifyCalls, run>>
        /\ UNCHANGED restVars

----------------------------------------------------------------------------
\* jobs.ts: updateStaleNotionAlbumsFromSpotify

\* existingAlbumProperties.get(key): the saved albums whose key is `key`, in
\* list order; the empty list stands for undefined
correspondingSpotifyAlbums(savedAlbums, key) ==
    SelectSeq(savedAlbums, LAMBDA album :
        createAlbumKey(album.name, getArtistStringFromAlbum(album)) = key)

correspondingSpotifyIDs(savedAlbums, page) ==
    LET albums == correspondingSpotifyAlbums(savedAlbums, PageKey(page))
    IN  [i \in DOMAIN albums |-> albums[i].id]

correspondingSpotifyURLs(savedAlbums, page) ==
    LET albums == correspondingSpotifyAlbums(savedAlbums, PageKey(page))
    IN  [i \in DOMAIN albums |-> albums[i].url]

\* variant: a page is stale only when a ground-truth ID is missing
isStale_IdsOnly(page, savedAlbums, overwriteIDs) ==
    LET albumIDs == getSpotifyAlbumIDsFromNotionPage(page)
        ids == correspondingSpotifyIDs(savedAlbums, page)
    IN  /\ correspondingSpotifyAlbums(savedAlbums, PageKey(page)) # <<>>
        /\ \E i \in DOMAIN ids : ~Includes(albumIDs, ids[i])

isStale(page, savedAlbums, overwriteIDs) ==
    LET albumIDs == getSpotifyAlbumIDsFromNotionPage(page)
        albumURL == page.url
        ids == correspondingSpotifyIDs(savedAlbums, page)
        urls == correspondingSpotifyURLs(savedAlbums, page)
        pageAlbumIDSet == Range(albumIDs)
    IN  /\ correspondingSpotifyAlbums(savedAlbums, PageKey(page)) # <<>>
        /\ \/ \E i \in DOMAIN ids : ~Includes(albumIDs, ids[i])
           \/ ~Includes(urls, albumURL)
           \/ /\ overwriteIDs
              /\ ~ /\ \A i \in DOMAIN ids : ids[i] \in pageAlbumIDSet
                    /\ Cardinality(pageAlbumIDSet) = Len(ids)

staleAlbumPages(databasePages, savedAlbums, overwriteIDs) ==
    SelectSeq(databasePages, LAMBDA page : isStale(page, savedAlbums, overwriteIDs))

\* variant: the new IDs replace the old ones in either mode
albumsToWrite_NewOnly(page, savedAlbums, overwriteIDs) ==
    correspondingSpotifyIDs(savedAlbums, page)

\* variant: the union is written in either mode
albumsToWrite_UnionAlways(page, savedAlbums, overwriteIDs) ==
    Dedup(getSpotifyAlbumIDsFromNotionPage(page) \o correspondingSpotifyIDs(savedAlbums, page))

albumsToWrite(page, savedAlbums, overwriteIDs) ==
    LET oldAlbumIDs == getSpotifyAlbumIDsFromNotionPage(page)
        newAlbumIDs == correspondingSpotifyIDs(savedAlbums, page)
        albumIDUnionSet == Dedup(oldAlbumIDs \o newAlbumIDs)
    IN  IF overwriteIDs THEN newAlbumIDs ELSE albumIDUnionSet

newAlbumURL(page, savedAlbums) ==
    LET albums == correspondingSpotifyAlbums(savedAlbums, PageKey(page))
        availiableAlbums == SelectSeq(albums, LAMBDA album : album.available_markets > 0)
    IN  IF Len(availiableAlbums) > 0 THEN availiableAlbums[1].url ELSE albums[1].url

\* the UpdatePageParameters built for a stale page
updateParams(page, savedAlbums, overwriteIDs) ==
    [op |-> "update", page_id |-> page.id,
     albumId |-> makeStringFromAlbumIDs(albumsToWrite(page, savedAlbums, overwriteIDs)),
     url |-> newAlbumURL(page, savedAlbums)]

\* Notion carries out pages.update requests that set the ID and URL fields
ApplyUpdates(db, calls) ==
    [i \in DOMAIN db |->
        IF \E k \in DOMAIN calls : calls[k].page_id = i
        THEN LET k == CHOOSE k \in DOMAIN calls :
                        /\ calls[k].page_id = i
                        /\ \A j \in DOMAIN calls : calls[j].page_id = i => j <= k
             IN  [db[i] EXCEPT !.albumId = calls[k].albumId, !.url = calls[k].url,
                               !.last_edited_time = MaxTimeOf(db) + 1]
        ELSE db[i]]

\* The stale-album job, run once: reads the database, collects the stale
\* pages and awaits one pages.update per stale page.
UpdateStaleNotionAlbumsFromSpotify(savedAlbums, overwriteIDs) ==
    /\ run.job = "none"
    /\ LET databasePages == getAllDatabasePages
           stale == staleAlbumPages(databasePages, savedAlbums, overwriteIDs)
           calls == [i \in DOMAIN stale |-> updateParams(stale[i], savedAlbums, overwriteIDs)]
       IN  /\ notionCalls' = calls
           /\ pages' = ApplyUpdates(pages, calls)
           /\ run' = [NoRun EXCEPT !.job = "stale", !.savedAlbums = savedAlbums,
                                   !.overwriteIDs = overwriteIDs,
                                   !.databasePages = databasePages,
                                   !.selected = stale, !.outcome = "ok"]
    /\ spotifyCalls' = <<>>
    /\ UNCHANGED pending
    /\ UNCHANGED restVars

----------------------------------------------------------------------------
\* jobs.ts: filterSpotifyLibraryUsingIncludeColumn and
\* filterSpotifyLibraryWithNotionPages

\* includeColumnFilteringFunction: includeProperty[i] is the value of the
\* include formula on the i-th page
RECURSIVE includeColumnFilteringFunction(_, _)
includeColumnFilteringFunction(notionAlbumPages, includeProperty) ==
    IF notionAlbumPages = <<>> THEN [add |-> <<>>, remove |-> <<>>]
    ELSE LET n == Len(notionAlbumPages)
             rest == includeColumnFilteringFunction(SubSeq(notionAlbumPages, 1, n - 1),
                                                    SubSeq(includeProperty, 1, n - 1))
             albumIDs == getSpotifyAlbumIDsFromNotionPage(notionAlbumPages[n])
         IN  IF Trim(Join(albumIDs, <<",">>)) = <<>> THEN rest
             ELSE IF includeProperty[n]
                  THEN [add |-> rest.add \o albumIDs, remove |-> rest.remove]
                  ELSE [add |-> rest.add, remove |-> rest.remove \o albumIDs]

\* variant: the lists are never found to overlap
sharedIDs_None(add, remove) == <<>>

\* the IDs that belong to both lists
sharedIDs(add, remove) == arrayIntersect(add, remove)

\* variant: the add list is narrowed to what the snapshot already holds
narrowedAdd_Kept(add, originalSavedAlbumIDs) == arrayIntersect(add, originalSavedAlbumIDs)

narrowedAdd(add, originalSavedAlbumIDs) == arrayDifference(add, originalSavedAlbumIDs)

\* variant: the remove list is sent as it is
narrowedRemove_All(remove, originalSavedAlbumIDs) == remove

narrowedRemove(remove, originalSavedAlbumIDs) == arrayIntersect(originalSavedAlbumIDs, remove)

libraryCalls(method, chunks) == [i \in DOMAIN chunks |-> [method |-> method, ids |-> chunks[i]]]

\* The library filter, run once.  hasSnapshot says whether originalSavedAlbums
\* is defined.
FilterSpotifyLibraryUsingIncludeColumn(includeProperty, hasSnapshot, originalSavedAlbums) ==
    /\ run.job = "none"
    /\ ~hasSnapshot => originalSavedAlbums = <<>>
    /\ LET databasePages == getAllDatabasePages
           lists == includeColumnFilteringFunction(databasePages, includeProperty)
           originalSavedAlbumIDs ==
               [i \in DOMAIN originalSavedAlbums |-> originalSavedAlbums[i].id]
           add == IF hasSnapshot THEN narrowedAdd(lists.add, originalSavedAlbumIDs)
                  ELSE lists.add
           remove == IF hasSnapshot THEN narrowedRemove(lists.remove, originalSavedAlbumIDs)
                     ELSE lists.remove
           lookups == IF hasSnapshot
                      THEN libraryCalls("GET", chunkArray(add, spotifyChunkSizeLimit))
                      ELSE <<>>
           thisRun == [NoRun EXCEPT !.job = "filter", !.databasePages = databasePages,
                                    !.add = lists.add, !.remove = lists.remove,
                                    !.hasSnapshot = hasSnapshot,
                                    !.snapshot = originalSavedAlbums]
       IN  IF Len(sharedIDs(lists.add, lists.remove)) > 0
           THEN /\ run' = [thisRun EXCEPT !.outcome = "error",
                                          !.message = sharedIDs(lists.add, lists.remove)]
                /\ spotifyCalls' = <<>>
           ELSE /\ run' = [thisRun EXCEPT !.outcome = "ok"]
                /\ spotifyCalls' =
                      lookups
                      \o libraryCalls("PUT", chunkArray(add, spotifyChunkSizeLimit))
                      \o libraryCalls("DELETE", chunkArray(remove, spotifyChunkSizeLimit))
    /\ notionCalls' = <<>>
    /\ UNCHANGED <<pages, pending>>
    /\ UNCHANGED restVars

----------------------------------------------------------------------------
\* jobs.ts: removeDuplicateAlbumsByAlbumProperties

\* the key under which a page is entered in albumPageMap
albumKey(page) == createAlbumKey(page.artist, page.name)

\* albumPageMap.values(): the groups in the order their keys were first
\* seen, the pages of a group in list order
albumPageMap(databasePages) ==
    LET keys == Dedup([i \in DOMAIN databasePages |-> albumKey(databasePages[i])])
    IN  [k \in DOMAIN keys |->
            SelectSeq(databasePages, LAMBDA page : albumKey(page) = keys[k])]

duplicateAlbums(databasePages) ==
    SelectSeq(albumPageMap(databasePages), LAMBDA group : Len(group) > 1)

\* getSelectFieldAsString(page, albumRatingColumn) !== undefined
IsRated(page) == page.rating # Unrated

ratedPages(group) == SelectSeq(group, IsRated)

unratedPages(group) == SelectSeq(group, LAMBDA page : ~IsRated(page))

\* the groups left to strategy 2
remainingAlbumPages(databasePages, albumRatingColumn) ==
    LET dups == duplicateAlbums(databasePages)
    IN  IF albumRatingColumn
        THEN [k \in DOMAIN dups |->
                IF Len(ratedPages(dups[k])) > 0 THEN ratedPages(dups[k]) ELSE dups[k]]
        ELSE dups

\* the pages strategy 1 marks for removal
unratedToRemove(databasePages, albumRatingColumn) ==
    LET dups == duplicateAlbums(databasePages)
    IN  IF albumRatingColumn
        THEN Flat([k \in DOMAIN dups |->
                IF Len(ratedPages(dups[k])) > 0 THEN unratedPages(dups[k]) ELSE <<>>])
        ELSE <<>>

\* pages.reduce((prev, curr) => prev later than curr ? prev : curr)
RECURSIVE lastModifiedPage(_)
lastModifiedPage(group) ==
    IF Len(group) = 1 THEN group[1]
    ELSE LET prevPage == lastModifiedPage(SubSeq(group, 1, Len(group) - 1))
             currPage == group[Len(group)]
         IN  IF prevPage.last_edited_time > currPage.last_edited_time
             THEN prevPage ELSE currPage

pagesToRemove(databasePages, albumRatingColumn) ==
    LET remaining == remainingAlbumPages(databasePages, albumRatingColumn)
    IN  unratedToRemove(databasePages, albumRatingColumn)
        \o Flat([k \in DOMAIN remaining |->
                SelectSeq(remaining[k],
                          LAMBDA page : page.id # lastModifiedPage(remaining[k]).id)])

\* Notion carries out pages.update requests that set the archived flag
ApplyArchives(db, calls) ==
    [i \in DOMAIN db |->
        IF \E k \in DOMAIN calls : calls[k].page_id = i
        THEN [db[i] EXCEPT !.archived = TRUE] ELSE db[i]]

\* The duplicate-removal job, run once on the pages loaded from the
\* database.  albumRatingColumn says whether a rating column is designated.
RemoveDuplicateAlbumsByAlbumProperties(albumRatingColumn) ==
    /\ run.job = "none"
    /\ LET databasePages == getAllDatabasePages
           toRemove == pagesToRemove(databasePages, albumRatingColumn)
           calls == [i \in DOMAIN toRemove |->
                       [op |-> "archive", page_id |-> toRemove[i].id,
                        albumId |-> <<>>, url |-> <<>>]]
           groups == albumPageMap(databasePages)
       IN  /\ notionCalls' = calls
           /\ pages' = ApplyArchives(pages, calls)
           /\ run' = [NoRun EXCEPT !.job = "dedup", !.databasePages = databasePages,
                                   !.ratingColumn = albumRatingColumn,
                                   !.albumPageMap =
                                       [k \in DOMAIN groups |->
                                           [i \in DOMAIN groups[k] |-> groups[k][i].id]],
                                   !.selected = toRemove, !.outcome = "ok"]
    /\ spotifyCalls' = <<>>
    /\ UNCHANGED pending
    /\ UNCHANGED restVars

\* Databases the import job is run against: titles that differ from the
\* catalog's in case and whitespace or altogether, and ID fields that are
\* empty, hold one ID or hold two.
ImportPageContents ==
    {Page(0, name, <<"b">>, albumId, <<>>, Unrated, 1) :
        name \in {<<"a">>, <<" ", "A">>, <<"x">>},
        albumId \in {<<>>, <<"1">>, <<"2", ",", " ", "3">>}}

InitImport ==
    /\ pages \in {Database(c) : c \in SeqUpTo(ImportPageContents, MaxInitPages)}
    /\ pending = <<>>
    /\ notionCalls = <<>>
    /\ spotifyCalls = <<>>
    /\ run = NoRun
    /\ RestIdle

NextImport ==
    \/ \E savedAlbums \in SavedAlbumLists : ImportSavedSpotifyAlbums(savedAlbums)
    \/ NotionCreatesPage

SpecImport == InitImport /\ [][NextImport]_vars

----------------------------------------------------------------------------
\* Claims about the import reconciler

\* the catalog IDs a page stores: the entries of its ID field
StoredIDs(page) == Range(getSpotifyAlbumIDsFromNotionPage(page))

AlbumKey(name, artist) ==
    ToLowerCase(Trim(name)) \o <<" ", "-", " ">> \o ToLowerCase(Trim(artist))

AlbumKeyOfAlbum(album) == AlbumKey(album.name, Join(album.artists, <<",", " ">>))

AlbumKeyOfPage(page) == AlbumKey(page.name, page.artist)

IdKnown(album, dbPages) == \E i \in DOMAIN dbPages : album.id \in StoredIDs(dbPages[i])

KeyKnown(album, dbPages) ==
    \E i \in DOMAIN dbPages : AlbumKeyOfAlbum(album) = AlbumKeyOfPage(dbPages[i])

CreatesFor(album) ==
    \E k \in DOMAIN notionCalls :
        notionCalls[k].op = "create" /\ notionCalls[k].albumId = album.id

----------------------------------------------------------------------------
\* Databases the stale-album job is run against: pages with the key of
\* Album1 / Album2 whose ID field is empty or holds one or two IDs and whose
\* URL field is empty or holds the URL of Album2, and a page with the key of
\* no album.
StalePageContents ==
    {Page(0, <<" ", "A">>, <<"b">>, albumId, url, Unrated, 1) :
        albumId \in {<<>>, <<"2">>, <<"1", ",", " ", "2">>},
        url \in {<<>>, <<"u", "2">>}}
    \cup {Page(0, <<"x">>, <<"b">>, <<"2">>, <<"u", "2">>, Unrated, 1)}

InitStale ==
    /\ pages \in {Database(c) : c \in SeqUpTo(StalePageContents, MaxStalePages)}
    /\ pending = <<>>
    /\ notionCalls = <<>>
    /\ spotifyCalls = <<>>
    /\ run = NoRun
    /\ RestIdle

NextStale ==
    \E savedAlbums \in SavedAlbumLists, overwriteIDs \in BOOLEAN :
        UpdateStaleNotionAlbumsFromSpotify(savedAlbums, overwriteIDs)

SpecStale == InitStale /\ [][NextStale]_vars

----------------------------------------------------------------------------
\* Claims about the stale-record refresher

\* the ground truth for a page: the saved albums with the page's key
GroundTruth(savedAlbums, page) ==
    {savedAlbums[i] : i \in {j \in DOMAIN savedAlbums :
                                AlbumKeyOfAlbum(savedAlbums[j]) = AlbumKeyOfPage(page)}}

GroundTruthIDs(savedAlbums, page) == {album.id : album \in GroundTruth(savedAlbums, page)}

GroundTruthURLs(savedAlbums, page) == {album.url : album \in GroundTruth(savedAlbums, page)}

\* the basic staleness test: (a) a ground-truth ID is missing from the page,
\* or (b) the page's URL is the URL of no ground-truth album
BasicStale(savedAlbums, page) ==
    /\ GroundTruth(savedAlbums, page) # {}
    /\ \/ ~(GroundTruthIDs(savedAlbums, page) \subseteq StoredIDs(page))
       \/ page.url \notin GroundTruthURLs(savedAlbums, page)

UpdatesOf(pageId) == {k \in DOMAIN notionCalls :
                        notionCalls[k].op = "update" /\ notionCalls[k].page_id = pageId}

StaleRun(overwriteIDs) == run.job = "stale" /\ run.overwriteIDs = overwriteIDs

\* the entries of an ID field that are catalog IDs (not the empty text)
CatalogIDs(page) == StoredIDs(page) \ {<<>>}

\* C2: without overwriteIDs a page receives an update request if and only if
\* it is stale by the basic test, every stale page receives exactly one, and
\* no request goes to anything else.
C2_UpdateIffBasicStale ==
    StaleRun(FALSE) =>
        /\ \A i \in DOMAIN run.databasePages :
              Cardinality(UpdatesOf(run.databasePages[i].id)) =
                  IF BasicStale(run.savedAlbums, run.databasePages[i]) THEN 1 ELSE 0
        /\ \A k \in DOMAIN notionCalls :
              /\ notionCalls[k].op = "update"
              /\ \E i \in DOMAIN run.databasePages :
                    run.databasePages[i].id = notionCalls[k].page_id

\* a run that updated a stale page and left a page of an unsaved key alone
C2_Witness ==
    /\ StaleRun(FALSE)
    /\ \E i, j \in DOMAIN run.databasePages :
          /\ BasicStale(run.savedAlbums, run.databasePages[i])
          /\ UpdatesOf(run.databasePages[i].id) # {}
          /\ GroundTruth(run.savedAlbums, run.databasePages[j]) = {}
          /\ UpdatesOf(run.databasePages[j].id) = {}

\* C3: without overwriteIDs the ID set of an updated page is the union of
\* the set it stored before and the ground-truth IDs of its key, both as the
\* field is parsed and counting catalog IDs only.
C3_UnionOfOldAndNew ==
    StaleRun(FALSE) =>
        \A i \in DOMAIN run.databasePages :
            LET before == run.databasePages[i]
                after == pages[before.id]
            IN  UpdatesOf(before.id) # {} =>
                  /\ StoredIDs(after) = StoredIDs(before) \cup GroundTruthIDs(run.savedAlbums, before)
                  /\ CatalogIDs(after) = CatalogIDs(before) \cup GroundTruthIDs(run.savedAlbums, before)

\* a page that stored {2} and a page that stored no ID were both updated
\* from ground truth {1}
C3_Witness ==
    /\ StaleRun(FALSE)
    /\ \E i, j \in DOMAIN run.databasePages :
          /\ CatalogIDs(run.databasePages[i]) = {Id2}
          /\ GroundTruthIDs(run.savedAlbums, run.databasePages[i]) = {Id1}
          /\ CatalogIDs(pages[run.databasePages[i].id]) = {Id1, Id2}
          /\ CatalogIDs(run.databasePages[j]) = {}
          /\ UpdatesOf(run.databasePages[j].id) # {}

C5_OverwriteStaleIffSetsDiffer ==
    StaleRun(TRUE) =>
        \A i \in DOMAIN run.databasePages :
            LET page == run.databasePages[i]
            IN  GroundTruth(run.savedAlbums, page) # {} =>
                  (UpdatesOf(page.id) # {} <=>
                      \/ BasicStale(run.savedAlbums, page)
                      \/ StoredIDs(page) # GroundTruthIDs(run.savedAlbums, page))

----------------------------------------------------------------------------
\* Databases the library filter is run against: ID fields that are empty or
\* hold one, two or three IDs.
FilterPageContents ==
    {Page(0, <<"a">>, <<"b">>, albumId, <<>>, Unrated, 1) :
        albumId \in {<<>>, <<"1">>, <<"2">>, <<"1", ",", " ", "3">>,
                     <<"2", ",", " ", "3">>, <<"1", ",", " ", "2", ",", " ", "3">>}}

InitFilter ==
    /\ pages \in {Database(c) : c \in SeqUpTo(FilterPageContents, MaxFilterPages)}
    /\ pending = <<>>
    /\ notionCalls = <<>>
    /\ spotifyCalls = <<>>
    /\ run = NoRun
    /\ RestIdle

NextFilter ==
    \E includeProperty \in [1..Len(getAllDatabasePages) -> BOOLEAN],
       hasSnapshot \in BOOLEAN,
       originalSavedAlbums \in SeqUpTo(AlbumPool, MaxSnapshot) :
        FilterSpotifyLibraryUsingIncludeColumn(includeProperty, hasSnapshot,
                                               originalSavedAlbums)

SpecFilter == InitFilter /\ [][NextFilter]_vars

----------------------------------------------------------------------------
\* Claims about the library filter engine

FilterRun == run.job = "filter"

\* the IDs sent in requests of a method, in the order sent
Sent(method) ==
    Flat([i \in 1..Len(SelectSeq(spotifyCalls, LAMBDA c : c.method = method)) |->
            SelectSeq(spotifyCalls, LAMBDA c : c.method = method)[i].ids])

SnapshotIDs == {run.snapshot[i].id : i \in DOMAIN run.snapshot}

\* C6: when the add and remove lists share an ID the engine fails with an
\* error that names the shared IDs and sends no add and no remove request.
C6_OverlapAborts ==
    (FilterRun /\ Range(run.add) \cap Range(run.remove) # {}) =>
        /\ run.outcome = "error"
        /\ Range(run.message) = Range(run.add) \cap Range(run.remove)
        /\ Sent("PUT") = <<>>
        /\ Sent("DELETE") = <<>>

\* a run with two IDs to add of which one is also to remove
C6_Witness ==
    /\ FilterRun
    /\ Cardinality(Range(run.add)) >= 2
    /\ Cardinality(Range(run.add) \cap Range(run.remove)) = 1
    /\ run.outcome = "error"

\* C7: when the engine proceeds with a snapshot S, the IDs sent to add are
\* the add-list IDs outside S and the IDs sent to remove are the remove-list
\* IDs inside S; without a snapshot the two lists are sent as they are.
C7_NarrowedBySnapshot ==
    (FilterRun /\ run.outcome = "ok") =>
        IF run.hasSnapshot
        THEN /\ Range(Sent("PUT")) = Range(run.add) \ SnapshotIDs
             /\ Range(Sent("DELETE")) = Range(run.remove) \cap SnapshotIDs
        ELSE /\ Sent("PUT") = run.add
             /\ Sent("DELETE") = run.remove

\* a run with a snapshot that dropped an ID from the add list and an ID from
\* the remove list, and sent a remove request
C7_Witness ==
    /\ FilterRun /\ run.outcome = "ok" /\ run.hasSnapshot
    /\ Range(run.add) \cap SnapshotIDs # {}
    /\ Range(run.remove) \ SnapshotIDs # {}
    /\ Sent("DELETE") # <<>>

\* the snapshot holds the albums with IDs 1 and 2, each once
Snapshot12 ==
    FilterRun /\ run.hasSnapshot /\ SnapshotIDs = {Id1, Id2} /\ Len(run.snapshot) = 2

\* C8 as stated: with IDs 1 and 2 in the snapshot, add = [1, 2, 3] and
\* remove = [2] make the engine proceed with add = [3] and remove = [2].
C8_Original ==
    (Snapshot12 /\ run.add = <<Id1, Id2, Id3>> /\ run.remove = <<Id2>>) =>
        /\ run.outcome = "ok"
        /\ Sent("PUT") = <<Id3>>
        /\ Sent("DELETE") = <<Id2>>

\* C8, amended: with IDs 1 and 2 in the snapshot, add = [1, 2, 3] and
\* remove = [2] are rejected because 2 is on both lists and nothing is sent;
\* the disjoint lists add = [1, 3] and remove = [2] make the engine proceed
\* with add = [3] and remove = [2].
C8_OverlapRejectedDisjointNarrowed ==
    /\ (Snapshot12 /\ run.add = <<Id1, Id2, Id3>> /\ run.remove = <<Id2>>) =>
          /\ run.outcome = "error"
          /\ run.message = <<Id2>>
          /\ spotifyCalls = <<>>
    /\ (Snapshot12 /\ run.add = <<Id1, Id3>> /\ run.remove = <<Id2>>) =>
          /\ run.outcome = "ok"
          /\ Sent("PUT") = <<Id3>>
          /\ Sent("DELETE") = <<Id2>>

\* the run on add = [1, 3], remove = [2] with snapshot {1, 2}
C8_Witness ==
    /\ Snapshot12 /\ run.add = <<Id1, Id3>> /\ run.remove = <<Id2>>
    /\ run.outcome = "ok"

----------------------------------------------------------------------------
\* Databases the duplicate-removal job is run against.  The titles and
\* artists: a page and its copy in other case and spacing, and a page whose
\* title and artist differ from theirs but read the same once artist and
\* title are joined by " - ".
DedupTitles ==
    {<<<<"a">>, <<"b", " ", "-", " ", "a">>>>,
     <<<<" ", "A">>, <<"B", " ", "-", " ", "A">>>>,
     <<<<"a", " ", "-", " ", "a">>, <<"b">>>>}

DedupPageContents ==
    {Page(0, t[1], t[2], <<>>, <<>>, rating, time) :
        t \in DedupTitles, rating \in {Unrated, "5"}, time \in {1, 2}}

InitDedup ==
    /\ pages \in {Database(c) : c \in SeqUpTo(DedupPageContents, MaxDedupPages)}
    /\ pending = <<>>
    /\ notionCalls = <<>>
    /\ spotifyCalls = <<>>
    /\ run = NoRun
    /\ RestIdle

NextDedup ==
    \E albumRatingColumn \in BOOLEAN :
        RemoveDuplicateAlbumsByAlbumProperties(albumRatingColumn)

SpecDedup == InitDedup /\ [][NextDedup]_vars

----------------------------------------------------------------------------
\* Claims about the duplicate collapse engine

DedupRun == run.job = "dedup"

\* positions in the list the job was given
Loaded == DOMAIN run.databasePages

\* the pages of one AlbumKey
KeyGroup(i) == {j \in Loaded :
                  AlbumKeyOfPage(run.databasePages[j]) = AlbumKeyOfPage(run.databasePages[i])}

\* the pages the engine entered under one key of its map
MapGroup(i) == {j \in Loaded :
                  \E k \in DOMAIN run.albumPageMap :
                      /\ Includes(run.albumPageMap[k], run.databasePages[i].id)
                      /\ Includes(run.albumPageMap[k], run.databasePages[j].id)}

ArchivedNow(i) == pages[run.databasePages[i].id].archived

Rated(i) == run.databasePages[i].rating # Unrated

EditedAt(i) == run.databasePages[i].last_edited_time

\* the pages of a group among which the survivor is chosen
Candidates(G) ==
    IF run.ratingColumn /\ \E j \in G : Rated(j) THEN {j \in G : Rated(j)} ELSE G

\* exactly one page of G is left, and it is a candidate edited last
OneSurvivor(G) ==
    /\ Cardinality({j \in G : ~ArchivedNow(j)}) = 1
    /\ \A j \in G : ~ArchivedNow(j) =>
          /\ j \in Candidates(G)
          /\ \A c \in Candidates(G) : EditedAt(c) <= EditedAt(j)

\* C9 as stated: of every group of more than one page with the same
\* AlbumKey exactly one page is left un-archived, a rated one edited last
\* when a rating column is designated and the group has a rated page, else
\* the one edited last; a page alone in its group is never archived.
C9_Original ==
    DedupRun =>
        \A i \in Loaded :
            IF Cardinality(KeyGroup(i)) > 1 THEN OneSurvivor(KeyGroup(i))
            ELSE ~ArchivedNow(i)

\* The same statement for the groups of the engine's own map.
DedupOneSurvivorPerMapGroup ==
    DedupRun =>
        \A i \in Loaded :
            IF Cardinality(MapGroup(i)) > 1 THEN OneSurvivor(MapGroup(i))
            ELSE ~ArchivedNow(i)

\* a group of three pages, one of them rated and not edited last: the two
\* unrated pages are archived
DedupRatedSurvives ==
    /\ DedupRun /\ run.ratingColumn
    /\ \E i \in Loaded :
          /\ Cardinality(MapGroup(i)) = 3
          /\ Rated(i) /\ ~ArchivedNow(i)
          /\ \A j \in MapGroup(i) \ {i} :
                ~Rated(j) /\ ArchivedNow(j) /\ EditedAt(j) > EditedAt(i)

\* C10 as stated: two pages are in the same duplicate group if and only if
\* their AlbumKeys are equal.
C10_Original ==
    DedupRun =>
        \A i, j \in Loaded :
            (j \in MapGroup(i)) <=>
                AlbumKeyOfPage(run.databasePages[i]) = AlbumKeyOfPage(run.databasePages[j])

----------------------------------------------------------------------------
\* jobs.ts: backfillAlbumDurations

\* spotify.albums.get: the album object the catalog holds for an ID
catalogAlbum(id) == CHOOSE album \in AlbumPool : album.id = id

\* getSpotifyAlbumIDsFromNotionPage(page).filter(id => id !== "")
nonEmptyAlbumIDs(page) ==
    SelectSeq(getSpotifyAlbumIDsFromNotionPage(page), LAMBDA id : id # <<>>)

\* the pages with an album ID and no duration
validDatabasePages(existingDatabasePages) ==
    SelectSeq(existingDatabasePages, LAMBDA page :
        /\ nonEmptyAlbumIDs(page) # <<>>
        /\ page.duration = NoDuration)

\* variant: a page whose duration is written is archived as well
ApplyDurations_Archiving(db, calls) ==
    [i \in DOMAIN db |->
        IF \E k \in DOMAIN calls : calls[k].page_id = i
        THEN LET k == CHOOSE k \in DOMAIN calls : calls[k].page_id = i
             IN  [db[i] EXCEPT !.duration = <<calls[k].number>>, !.archived = TRUE,
                               !.last_edited_time = MaxTimeOf(db) + 1]
        ELSE db[i]]

\* Notion carries out pages.update requests that set the duration field
ApplyDurations(db, calls) ==
    [i \in DOMAIN db |->
        IF \E k \in DOMAIN calls : calls[k].page_id = i
        THEN LET k == CHOOSE k \in DOMAIN calls : calls[k].page_id = i
             IN  [db[i] EXCEPT !.duration = <<calls[k].number>>,
                               !.last_edited_time = MaxTimeOf(db) + 1]
        ELSE db[i]]

\* The duration backfill, run once: reads the database, looks up the first
\* album ID of every page that has one and no duration, and awaits one
\* pages.update per such page.
BackfillAlbumDurations ==
    /\ run.job = "none"
    /\ LET existingDatabasePages == getAllDatabasePages
           valid == validDatabasePages(existingDatabasePages)
           validDatabaseAlbumIDs == [i \in DOMAIN valid |-> nonEmptyAlbumIDs(valid[i])[1]]
           spotifyAlbums == [i \in DOMAIN valid |-> catalogAlbum(validDatabaseAlbumIDs[i])]
           calls == [i \in DOMAIN spotifyAlbums |->
                       [op |-> "duration", page_id |-> valid[i].id,
                        albumId |-> <<>>, url |-> <<>>,
                        number |-> getAlbumDuration(spotifyAlbums[i])]]
       IN  /\ notionCalls' = calls
           /\ pages' = ApplyDurations(pages, calls)
           /\ run' = [NoRun EXCEPT !.job = "backfill",
                                   !.databasePages = existingDatabasePages,
                                   !.selected = valid, !.outcome = "ok"]
    /\ spotifyCalls' = <<>>
    /\ UNCHANGED pending
    /\ UNCHANGED restVars

----------------------------------------------------------------------------
\* Jobs run one after another on one database (server.ts: the job routes
\* and runAlbumDBJobs; jobs.ts: main)

MaxJobs == 2            \* jobs run in one behaviour
MaxJobsPages == 1       \* pages in the database before the first job

\* The job that ran last has returned; the next one may start.
JobReturns ==
    /\ run.job # "none"
    /\ jobsRun + 1 < MaxJobs
    /\ jobsRun' = jobsRun + 1
    /\ run' = NoRun
    /\ notionCalls' = <<>>
    /\ spotifyCalls' = <<>>
    /\ UNCHANGED <<pages, pending, paging, saved, call, library, cli, cron>>

\* a page with an ID and another title than the catalog's, a page with the
\* catalog's title and no ID, and a rated page of the same title
JobsPageContents ==
    {Page(0, <<"x">>, <<"b">>, <<"1">>, <<>>, Unrated, 1),
     Page(0, <<"a">>, <<"b">>, <<>>, <<>>, Unrated, 1),
     Page(0, <<"A">>, <<"b">>, <<"2">>, <<"u", "2">>, "5", 2)}

\* the saved-album lists handed to the jobs
JobsSavedAlbums == {<<Album1, Album2>>, <<Album2, Album3>>}

InitJobs ==
    /\ pages \in {Database(c) : c \in SeqUpTo(JobsPageContents, MaxJobsPages)}
    /\ pending = <<>>
    /\ notionCalls = <<>>
    /\ spotifyCalls = <<>>
    /\ run = NoRun
    /\ RestIdle

NextJobs ==
    \/ \E savedAlbums \in JobsSavedAlbums : ImportSavedSpotifyAlbums(savedAlbums)
    \/ NotionCreatesPage
    \/ \E savedAlbums \in JobsSavedAlbums, overwriteIDs \in BOOLEAN :
          UpdateStaleNotionAlbumsFromSpotify(savedAlbums, overwriteIDs)
    \/ \E includeProperty \in [1..Len(getAllDatabasePages) -> BOOLEAN],
          originalSavedAlbums \in JobsSavedAlbums :
          FilterSpotifyLibraryUsingIncludeColumn(includeProperty, TRUE, originalSavedAlbums)
    \/ BackfillAlbumDurations
    \/ \E albumRatingColumn \in BOOLEAN :
          RemoveDuplicateAlbumsByAlbumProperties(albumRatingColumn)
    \/ JobReturns

SpecJobs == InitJobs /\ [][NextJobs]_vars

----------------------------------------------------------------------------
\* Claims about the life of a page

\* the pages whose archived flag is set
Archived(db) == {i \in DOMAIN db : db[i].archived}

\* C11: in every sequence of import, stale-refresh, library-filter,
\* duration-backfill and duplicate-collapse runs no page ever leaves the
\* store, and the archived flag of a page changes only in a step of the
\* duplicate-collapse engine, which sets it through a pages.update request
\* with archived: true.
C11_OnlyDedupArchives ==
    [][/\ Len(pages') >= Len(pages)
       /\ \A i \in DOMAIN pages : pages'[i].id = pages[i].id
       /\ Archived(pages) \subseteq Archived(pages')
       /\ \A i \in Archived(pages') \ Archived(pages) :
            /\ run'.job = "dedup"
            /\ run.job = "none"
            /\ \E k \in DOMAIN notionCalls' :
                  notionCalls'[k].op = "archive" /\ notionCalls'[k].page_id = i
       /\ run'.job \in {"import", "stale", "filter", "backfill"} =>
            Archived(pages') = Archived(pages)]_vars

\* an import has created a page, and then a backfill has written a duration;
\* nothing is archived
C11_Witness ==
    /\ jobsRun >= 1
    /\ run.job = "backfill"
    /\ notionCalls # <<>>
    /\ Len(pages) > MaxJobsPages
    /\ Archived(pages) = {}

----------------------------------------------------------------------------
\* jobs.ts: getAllDatabasePages, query by query

MaxDatabasePages == 237     \* pages in the queried database

pageSize == 100

\* no start_cursor in a query; null next_cursor in a response
NoCursor == 0

\* a database of n pages; a query returns page objects, full ones unless the
\* integration lacks access to the page's properties
NotionPages(n) == [i \in 1..n |-> [id |-> i, full |-> TRUE]]

\* notion.databases.query: the slice of the database that starts at the
\* cursor (a cursor stands for the position of the page it points at)
databasesQuery(database, query) ==
    LET first == IF query.start_cursor = NoCursor THEN 1 ELSE query.start_cursor
        after == first + query.page_size
        more == after <= Len(database)
    IN  [results |-> SubSeq(database, first, IF more THEN after - 1 ELSE Len(database)),
         has_more |-> more,
         next_cursor |-> IF more THEN after ELSE NoCursor]

\* getFullPages: the results, or a failed assertion when one is not a full page
getFullPages(response) ==
    IF \A i \in DOMAIN response.results : response.results[i].full
    THEN [ok |-> TRUE, pages |-> response.results]
    ELSE [ok |-> FALSE, pages |-> <<>>]

firstQuery == [start_cursor |-> NoCursor, page_size |-> pageSize]

\* variant: the query in the loop carries no cursor
nextQuery_NoCursor(albumDatabaseResponse) ==
    [start_cursor |-> NoCursor, page_size |-> pageSize]

\* the query sent in the loop
nextQuery(albumDatabaseResponse) ==
    [start_cursor |-> albumDatabaseResponse.next_cursor, page_size |-> pageSize]

exceptPaging == <<pages, pending, notionCalls, spotifyCalls, run,
                    jobsRun, saved, call, library, cli, cron>>

\* The function is called: it sends its first query and awaits the answer.
GetAllDatabasePages_FirstQuery ==
    /\ paging.pc = "start"
    /\ paging' = [paging EXCEPT !.pc = "awaiting", !.queries = <<firstQuery>>]
    /\ UNCHANGED exceptPaging

\* The awaited query is answered and the function runs on to its next await
\* or to its end.  dropCursor: the answer says has_more and carries no
\* next_cursor; partial: the first page object of the answer is not full.
GetAllDatabasePages_QueryResolves(dropCursor, partial) ==
    /\ paging.pc = "awaiting"
    /\ LET honest == databasesQuery(paging.database, paging.queries[Len(paging.queries)])
           cursor == IF dropCursor THEN NoCursor ELSE honest.next_cursor
           results == IF partial
                      THEN [i \in DOMAIN honest.results |->
                              IF i = 1 THEN [honest.results[i] EXCEPT !.full = FALSE]
                              ELSE honest.results[i]]
                      ELSE honest.results
           albumDatabaseResponse == [honest EXCEPT !.next_cursor = cursor,
                                                   !.results = results]
           full == getFullPages(albumDatabaseResponse)
           received == Append(paging.responses, albumDatabaseResponse)
       IN  /\ dropCursor => honest.has_more
           /\ partial => honest.results # <<>>
           /\ IF ~full.ok
              THEN paging' = [paging EXCEPT !.pc = "failed", !.responses = received,
                                            !.outcome = "AssertionError"]
              ELSE IF ~albumDatabaseResponse.has_more
              THEN paging' = [paging EXCEPT !.pc = "returned", !.responses = received,
                                !.databasePages = paging.databasePages \o full.pages,
                                !.outcome = "returned"]
              ELSE IF albumDatabaseResponse.next_cursor = NoCursor
              THEN paging' = [paging EXCEPT !.pc = "failed", !.responses = received,
                                !.databasePages = paging.databasePages \o full.pages,
                                !.outcome = "AssertionError"]
              ELSE paging' = [paging EXCEPT !.responses = received,
                                !.databasePages = paging.databasePages \o full.pages,
                                !.queries = Append(paging.queries,
                                                   nextQuery(albumDatabaseResponse))]
    /\ UNCHANGED exceptPaging

\* The awaited query fails: the rejection leaves the function.
GetAllDatabasePages_QueryRejects ==
    /\ paging.pc = "awaiting"
    /\ paging' = [paging EXCEPT !.pc = "failed", !.outcome = "rejected"]
    /\ UNCHANGED exceptPaging

InitPaging ==
    /\ EnginesIdle
    /\ jobsRun = 0
    /\ saved = Idle /\ call = Idle /\ library = Idle /\ cli = Idle /\ cron = Idle
    /\ \E n \in 0..MaxDatabasePages :
          paging = [pc |-> "start", database |-> NotionPages(n), queries |-> <<>>,
                    responses |-> <<>>, databasePages |-> <<>>, outcome |-> "pending"]

NextPaging ==
    \/ GetAllDatabasePages_FirstQuery
    \/ \E dropCursor \in BOOLEAN, partial \in BOOLEAN :
          GetAllDatabasePages_QueryResolves(dropCursor, partial)
    \/ GetAllDatabasePages_QueryRejects

SpecPaging == InitPaging /\ [][NextPaging]_vars

----------------------------------------------------------------------------
\* Claims about the cursor-style pagination

\* the items of the responses received so far, in the order received
ReceivedItems ==
    Flat([k \in DOMAIN paging.responses |-> paging.responses[k].results])

\* C12: the queries go out one at a time, every query after the first
\* carrying the next_cursor of the response before it; no query follows a
\* response with has_more false; what is returned is the items of all
\* responses in the order received, which is the whole database in order;
\* a response with has_more true and no next_cursor ends the call with a
\* failed assertion and no further query.
C12_SequentialCursorPagination ==
    LET q == paging.queries
        r == paging.responses
    IN  /\ Len(q) <= Len(r) + 1
        /\ Len(r) <= Len(q)
        /\ \A k \in DOMAIN q : q[k].page_size = 100
        /\ Len(q) >= 1 => q[1].start_cursor = NoCursor
        /\ \A k \in DOMAIN q : k >= 2 =>
              /\ r[k - 1].has_more
              /\ r[k - 1].next_cursor # NoCursor
              /\ q[k].start_cursor = r[k - 1].next_cursor
        /\ \A k \in DOMAIN r : ~r[k].has_more => Len(q) = k
        /\ \A k \in DOMAIN r : (r[k].has_more /\ r[k].next_cursor = NoCursor) =>
              /\ Len(q) = k
              /\ paging.pc = "failed"
              /\ paging.outcome = "AssertionError"
        /\ paging.pc = "returned" =>
              /\ ~r[Len(r)].has_more
              /\ paging.databasePages = ReceivedItems
              /\ paging.databasePages = paging.database

\* responses of 100, 100 and 37 items have been returned as 237 items
C12_Witness ==
    /\ paging.pc = "returned"
    /\ Len(paging.responses) = 3
    /\ Len(paging.responses[1].results) = 100
    /\ Len(paging.responses[2].results) = 100
    /\ Len(paging.responses[3].results) = 37
    /\ Len(paging.databasePages) = 237
    /\ \A i \in 1..237 : paging.databasePages[i].id = i

----------------------------------------------------------------------------
\* server.ts: getSavedUserAlbums

MaxSavedTotal == 101        \* albums saved in the user's library

limit == 50

diagnosticQueryAlbumLimit == 0

\* spotify.currentUser.albums.savedAlbums(limit, offset): the page of the
\* library (albums 1..total, in library order) at the offset
savedAlbumsPage(total, pageLimit, offset) ==
    [total |-> total,
     items |-> [i \in 1..(IF offset + pageLimit <= total THEN pageLimit
                          ELSE IF offset < total THEN total - offset ELSE 0) |->
                  offset + i]]

\* the requests pushed by the loop: one per offset 0, limit, 2 * limit, ...
\* below totalAlbums
pageRequests(totalAlbums) ==
    [k \in 1..Ceil(totalAlbums, limit) |->
        [limit |-> limit, offset |-> (k - 1) * limit, state |-> "pending", items |-> <<>>]]

\* variant: the responses are taken in the order they arrived in
spotifyResponses_AsArrived(s) ==
    [j \in DOMAIN s.arrivals |-> s.requests[s.arrivals[j]].items]

\* await Promise.all(spotifyResponsePromises): the responses in the order the
\* requests were pushed
spotifyResponses(s) == [k \in DOMAIN s.requests |-> s.requests[k].items]

exceptSaved == <<pages, pending, notionCalls, spotifyCalls, run,
                 jobsRun, paging, call, library, cli, cron>>

\* The function is called: it throws when no access token is populated, and
\* otherwise sends the diagnostic query and awaits it.
GetSavedUserAlbums_Call ==
    /\ saved.pc = "start"
    /\ IF ~saved.spotify
       THEN saved' = [saved EXCEPT !.pc = "failed", !.outcome = "threw"]
       ELSE saved' = [saved EXCEPT !.pc = "probing",
                                   !.probes = <<[limit |-> diagnosticQueryAlbumLimit]>>]
    /\ UNCHANGED exceptSaved

\* The diagnostic query is answered: every page request is issued and the
\* function awaits them all; with nothing to await it returns.
GetSavedUserAlbums_ProbeResolves ==
    /\ saved.pc = "probing"
    /\ LET diagnosticQuery == savedAlbumsPage(saved.library, diagnosticQueryAlbumLimit, 0)
           totalAlbums == diagnosticQuery.total
           issued == [saved EXCEPT !.totalAlbums = totalAlbums,
                                   !.requests = pageRequests(totalAlbums)]
       IN  IF issued.requests = <<>>
           THEN saved' = [issued EXCEPT !.pc = "returned", !.outcome = "returned",
                                        !.savedAlbums = Flat(spotifyResponses(issued))]
           ELSE saved' = [issued EXCEPT !.pc = "awaiting"]
    /\ UNCHANGED exceptSaved

\* The diagnostic query fails.
GetSavedUserAlbums_ProbeRejects ==
    /\ saved.pc = "probing"
    /\ saved' = [saved EXCEPT !.pc = "failed", !.outcome = "rejected"]
    /\ UNCHANGED exceptSaved

\* A page request is answered; when it was the last one awaited the function
\* returns the flattened responses.
GetSavedUserAlbums_PageResolves(k) ==
    /\ k \in DOMAIN saved.requests
    /\ saved.requests[k].state = "pending"
    /\ LET request == saved.requests[k]
           answered == [saved EXCEPT
                           !.requests[k].state = "ok",
                           !.requests[k].items =
                               savedAlbumsPage(saved.library, request.limit, request.offset).items,
                           !.arrivals = Append(saved.arrivals, k)]
       IN  IF /\ saved.pc = "awaiting"
              /\ \A j \in DOMAIN answered.requests : answered.requests[j].state = "ok"
           THEN saved' = [answered EXCEPT !.pc = "returned", !.outcome = "returned",
                                          !.savedAlbums = Flat(spotifyResponses(answered))]
           ELSE saved' = answered
    /\ UNCHANGED exceptSaved

\* A page request fails: Promise.all rejects at once, whatever is still
\* outstanding.
GetSavedUserAlbums_PageRejects(k) ==
    /\ k \in DOMAIN saved.requests
    /\ saved.requests[k].state = "pending"
    /\ LET failed == [saved EXCEPT !.requests[k].state = "failed"]
       IN  IF saved.pc = "awaiting"
           THEN saved' = [failed EXCEPT !.pc = "failed", !.outcome = "rejected"]
           ELSE saved' = failed
    /\ UNCHANGED exceptSaved

InitSaved ==
    /\ EnginesIdle
    /\ jobsRun = 0
    /\ paging = Idle /\ call = Idle /\ library = Idle /\ cli = Idle /\ cron = Idle
    /\ \E total \in 0..MaxSavedTotal, spotify \in BOOLEAN :
          saved = [pc |-> "start", spotify |-> spotify, library |-> total,
                   probes |-> <<>>, totalAlbums |-> 0, requests |-> <<>>,
                   arrivals |-> <<>>, outcome |-> "pending", savedAlbums |-> <<>>]

NextSaved ==
    \/ GetSavedUserAlbums_Call
    \/ GetSavedUserAlbums_ProbeResolves
    \/ GetSavedUserAlbums_ProbeRejects
    \/ \E k \in 1..Ceil(MaxSavedTotal, limit) : GetSavedUserAlbums_PageResolves(k)
    \/ \E k \in 1..Ceil(MaxSavedTotal, limit) : GetSavedUserAlbums_PageRejects(k)

SpecSaved == InitSaved /\ [][NextSaved]_vars

----------------------------------------------------------------------------
\* Claims about the offset-style pagination

\* C13: one count probe of zero items comes first; the page requests, one
\* of size 50 per offset 0, 50, 100, ... below the probed total, exist only
\* after the probe was answered and all of them at once, before any of them
\* is answered; the call returns the albums in ascending offset order
\* whatever the order of arrival; when a request failed the call fails and
\* returns nothing; with a total of 0 there is no page request and the
\* result is empty.
C13_ProbeThenParallelPages ==
    LET rq == saved.requests
    IN  /\ Len(saved.probes) <= 1
        /\ \A p \in DOMAIN saved.probes : saved.probes[p].limit = 0
        /\ rq # <<>> => /\ saved.pc \notin {"start", "probing"}
                        /\ Len(saved.probes) = 1
        /\ saved.pc \in {"awaiting", "returned"} =>
              /\ Len(rq) = Cardinality({o \in 0..saved.library : o % 50 = 0 /\ o < saved.library})
              /\ \A k \in DOMAIN rq : rq[k].limit = 50 /\ rq[k].offset = 50 * (k - 1)
        /\ saved.arrivals # <<>> => Len(rq) = Ceil(saved.library, 50)
        /\ saved.pc = "returned" =>
              /\ saved.savedAlbums = [i \in 1..saved.library |-> i]
              /\ \A k \in DOMAIN rq : rq[k].state = "ok"
        /\ (\E k \in DOMAIN rq : rq[k].state = "failed") =>
              /\ saved.pc = "failed"
              /\ saved.savedAlbums = <<>>
        /\ saved.outcome = "rejected" => saved.savedAlbums = <<>>
        /\ (saved.library = 0 /\ saved.pc \notin {"start", "probing", "failed"}) =>
              /\ rq = <<>>
              /\ saved.pc = "returned"
              /\ saved.savedAlbums = <<>>

\* three pages were requested, the last arrived first, and the 101 albums
\* were returned in library order
C13_Witness ==
    /\ saved.pc = "returned"
    /\ Len(saved.requests) = 3
    /\ saved.arrivals = <<3, 1, 2>>
    /\ Len(saved.savedAlbums) = 101

----------------------------------------------------------------------------
\* helpers.ts: determineAlbumType, applied to a release

MaxTypeTracks == 7          \* tracks of a release whose type is determined

exceptCall == <<pages, pending, notionCalls, spotifyCalls, run,
                jobsRun, paging, saved, library, cli, cron>>

\* track durations of a release of n tracks that runs `runtime` ms: every
\* track but the first takes 200 s
DurationsFor(n, runtime) ==
    [i \in 1..n |-> IF i = 1 THEN runtime - 200000 * (n - 1) ELSE 200000]

\* the runtimes tried: 25 minutes, 30 minutes less and more a millisecond,
\* 30 minutes, 35 minutes
Runtimes == {1500000, 1799999, 1800000, 1800001, 2100000}

\* the releases the type is determined of
TypedReleases ==
    {AlbumObject(Id1, <<"a">>, <<<<"b">>>>, <<>>, 1, albumType, 0, <<>>) :
        albumType \in {"album", "single", "compilation"}}
    \cup
    {AlbumObject(Id1, <<"a">>, <<<<"b">>>>, <<>>, 1, c[1], c[2], DurationsFor(c[2], c[3])) :
        c \in {d \in {"album", "single", "compilation"} \X (1..MaxTypeTracks) \X Runtimes :
                  d[3] - 200000 * (d[2] - 1) > 0}}

DetermineAlbumType ==
    /\ call.pc = "called"
    /\ call.fn = "determineAlbumType"
    /\ call' = [call EXCEPT !.pc = "returned", !.result = determineAlbumType(call.album)]
    /\ UNCHANGED exceptCall

InitAlbumType ==
    /\ EnginesIdle
    /\ jobsRun = 0
    /\ paging = Idle /\ saved = Idle /\ library = Idle /\ cli = Idle /\ cron = Idle
    /\ \E album \in TypedReleases :
          call = [pc |-> "called", fn |-> "determineAlbumType", album |-> album,
                  result |-> "none"]

NextAlbumType == DetermineAlbumType

SpecAlbumType == InitAlbumType /\ [][NextAlbumType]_vars

----------------------------------------------------------------------------
\* Claims about the release classification

\* the runtime of a release: the durations of all its tracks, added up
Runtime(album) ==
    Sum([i \in DOMAIN album.catalog_tracks |-> album.catalog_tracks[i].duration_ms])

----------------------------------------------------------------------------
\* helpers.ts: getAlbumDuration, applied to a release

MaxAlbumTracks == 51        \* tracks the catalog lists for a release

\* The releases whose duration is computed: the catalog lists n tracks, track
\* i taking i ms; the release declares n tracks, or one more than the
\* catalog lists.
TimedReleases ==
    {AlbumObject(Id1, <<"a">>, <<<<"b">>>>, <<>>, 1, "album", c[2], [i \in 1..c[1] |-> i]) :
        c \in {d \in (0..MaxAlbumTracks) \X (0..(MaxAlbumTracks + 1)) :
                  d[2] = d[1] \/ d[2] = d[1] + 1}}

GetAlbumDuration ==
    /\ call.pc = "called"
    /\ call.fn = "getAlbumDuration"
    /\ call' = [call EXCEPT !.pc = "returned", !.result = getAlbumDuration(call.album)]
    /\ UNCHANGED exceptCall

InitDuration ==
    /\ EnginesIdle
    /\ jobsRun = 0
    /\ paging = Idle /\ saved = Idle /\ library = Idle /\ cli = Idle /\ cron = Idle
    /\ \E album \in TimedReleases :
          call = [pc |-> "called", fn |-> "getAlbumDuration", album |-> album,
                  result |-> 0]

NextDuration == GetAlbumDuration

SpecDuration == InitDuration /\ [][NextDuration]_vars

----------------------------------------------------------------------------
\* Claims about the album duration

\* C15: the duration computed for a release is the sum of the durations of
\* all its tracks, for every track count, also when the release has more
\* tracks than the first track page embeds.
C15_DurationIsSumOfAllTracks ==
    (call.pc = "returned" /\ call.fn = "getAlbumDuration") =>
        call.result = Runtime(call.album)

\* the same for the releases whose first track page embeds every track
DurationRightWhenAllTracksEmbedded ==
    (/\ call.pc = "returned"
     /\ call.fn = "getAlbumDuration"
     /\ Len(call.album.tracks.items) = Len(call.album.catalog_tracks)) =>
        call.result = Runtime(call.album)

\* the same for the releases whose tracks are fetched page by page
DurationRightWhenPaged ==
    (/\ call.pc = "returned"
     /\ call.fn = "getAlbumDuration"
     /\ call.album.total_tracks # call.album.tracks.total) =>
        call.result = Runtime(call.album)

----------------------------------------------------------------------------
\* helpers.ts: createAlbumKey, applied to two (name, artist) pairs

MaxPad == 1             \* spaces before and after a name or an artist

Spaces(n) == [i \in 1..n |-> " "]

Padded(texts) ==
    {Spaces(l) \o t \o Spaces(r) : t \in texts, l \in 0..MaxPad, r \in 0..MaxPad}

\* names: one and two words, written in either case, with and without the
\* space between the words
KeyNames ==
    Padded({<<>>, <<"a">>, <<"A">>, <<"a", " ", "b">>, <<"A", " ", "B">>, <<"a", "b">>})

KeyArtists == {<<"b">>, <<" ", "B">>}

CreateAlbumKey ==
    /\ call.pc = "called"
    /\ call.fn = "createAlbumKey"
    /\ call' = [call EXCEPT !.pc = "returned",
                            !.result = [i \in DOMAIN call.args |->
                                           createAlbumKey(call.args[i].albumName,
                                                          call.args[i].albumArtist)]]
    /\ UNCHANGED exceptCall

InitKey ==
    /\ EnginesIdle
    /\ jobsRun = 0
    /\ paging = Idle /\ saved = Idle /\ library = Idle /\ cli = Idle /\ cron = Idle
    /\ \E name1 \in KeyNames, name2 \in KeyNames,
          artist1 \in KeyArtists, artist2 \in KeyArtists :
          call = [pc |-> "called", fn |-> "createAlbumKey",
                  args |-> <<[albumName |-> name1, albumArtist |-> artist1],
                             [albumName |-> name2, albumArtist |-> artist2]>>,
                  result |-> <<>>]

NextKey == CreateAlbumKey

SpecKey == InitKey /\ [][NextKey]_vars

----------------------------------------------------------------------------
\* Claims about the album key

\* a letter and its other case
CaseVariants == {{"a", "A"}, {"b", "B"}, {"c", "C"}}

SameLetter(c, d) == c = d \/ {c, d} \in CaseVariants

\* the texts are the same, letter by letter, but for the case of letters
SameButCase(t, u) ==
    /\ Len(t) = Len(u)
    /\ \A i \in DOMAIN t : SameLetter(t[i], u[i])

WithoutSpaces(t) == SelectSeq(t, LAMBDA c : c # " ")

\* the texts differ only in letter case and in whitespace
SameButCaseAndWhitespace(t, u) == SameButCase(WithoutSpaces(t), WithoutSpaces(u))

\* what is left of t when spaces are taken away before and after
Stripped(t) ==
    {SubSeq(t, p[1] + 1, p[2]) :
        p \in {q \in (0..Len(t)) \X (0..Len(t)) :
                  /\ q[1] <= q[2]
                  /\ \A x \in 1..q[1] : t[x] = " "
                  /\ \A x \in (q[2] + 1)..Len(t) : t[x] = " "}}

\* the texts differ only in letter case and in whitespace before and after
SameButCaseAndOuterWhitespace(t, u) ==
    \E a \in Stripped(t), b \in Stripped(u) : SameButCase(a, b)

KeysComputed == call.pc = "returned" /\ call.fn = "createAlbumKey"

\* C16 as stated: two (name, artist) pairs that differ only in letter case
\* and in whitespace have the same key.
C16_Original ==
    (/\ KeysComputed
     /\ SameButCaseAndWhitespace(call.args[1].albumName, call.args[2].albumName)
     /\ SameButCaseAndWhitespace(call.args[1].albumArtist, call.args[2].albumArtist)) =>
        call.result[1] = call.result[2]

\* C16 as amended: two (name, artist) pairs that differ only in letter case
\* and in whitespace before and after the name and before and after the
\* artist have the same key.
C16_CaseAndOuterWhitespaceInsensitive ==
    (/\ KeysComputed
     /\ SameButCaseAndOuterWhitespace(call.args[1].albumName, call.args[2].albumName)
     /\ SameButCaseAndOuterWhitespace(call.args[1].albumArtist, call.args[2].albumArtist)) =>
        call.result[1] = call.result[2]

\* key("A B", " B") and key(" a b ", "b") were computed and are the same
C16_Witness ==
    /\ KeysComputed
    /\ call.args[1] = [albumName |-> <<"A", " ", "B">>, albumArtist |-> <<" ", "B">>]
    /\ call.args[2] = [albumName |-> <<" ", "a", " ", "b", " ">>, albumArtist |-> <<"b">>]
    /\ call.result[1] = call.result[2]
    /\ call.result[1] = <<"a", " ", "b", " ", "-", " ", "b">>

----------------------------------------------------------------------------
\* helpers.ts: the page field accessors

MaxStoredNumber == 1        \* largest number stored in a number property

\* a property value that is null; a value v that is not null is <<v>>
Null == <<>>

\* what a call gives: a value, undefined, or a failed assertion
Value(v) == [kind |-> "value", value |-> <<v>>]
Undefined == [kind |-> "undefined", value |-> <<>>]
AssertionError == [kind |-> "AssertionError", value |-> <<>>]

\* page.properties[propertyName] !== undefined
HasProperty(page, propertyName) == propertyName \in DOMAIN page.properties

getRichTextField(page, propertyName) ==
    IF ~HasProperty(page, propertyName) THEN AssertionError
    ELSE LET richTextProperty == page.properties[propertyName]
         IN  IF richTextProperty.type # "rich_text" THEN AssertionError
             ELSE Value(richTextProperty.rich_text)

getTitleField(page, propertyName) ==
    IF ~HasProperty(page, propertyName) THEN AssertionError
    ELSE LET titleProperty == page.properties[propertyName]
         IN  IF titleProperty.type # "title" THEN AssertionError
             ELSE Value(titleProperty.title)

\* variant: numberProperty.number || undefined
getNumberField_Falsy(page, propertyName) ==
    IF ~HasProperty(page, propertyName) THEN AssertionError
    ELSE LET numberProperty == page.properties[propertyName]
         IN  IF numberProperty.type # "number" THEN AssertionError
             ELSE IF numberProperty.number = Null \/ numberProperty.number = <<0>>
                  THEN Undefined
                  ELSE Value(numberProperty.number[1])

getNumberField(page, propertyName) ==
    IF ~HasProperty(page, propertyName) THEN AssertionError
    ELSE LET numberProperty == page.properties[propertyName]
         IN  IF numberProperty.type # "number" THEN AssertionError
             ELSE IF numberProperty.number = Null THEN Undefined
                  ELSE Value(numberProperty.number[1])

getURLFieldAsString(page, propertyName) ==
    IF ~HasProperty(page, propertyName) THEN AssertionError
    ELSE LET urlProperty == page.properties[propertyName]
         IN  IF urlProperty.type # "url" THEN AssertionError
             ELSE IF urlProperty.url = Null THEN Value(<<>>)
                  ELSE Value(urlProperty.url[1])

getSelectFieldAsString(page, propertyName) ==
    IF ~HasProperty(page, propertyName) THEN AssertionError
    ELSE LET selectProperty == page.properties[propertyName]
         IN  IF selectProperty.type # "select" THEN AssertionError
             ELSE IF selectProperty.select = Null THEN Undefined
                  ELSE Value(selectProperty.select[1].name)

getFormulaPropertyAsBoolean(page, propertyName) ==
    IF ~HasProperty(page, propertyName) THEN AssertionError
    ELSE LET formulaProperty == page.properties[propertyName]
         IN  IF formulaProperty.type # "formula" THEN AssertionError
             ELSE LET innerFormulaValue == formulaProperty.formula
                  IN  IF innerFormulaValue.type # "boolean" THEN AssertionError
                      ELSE IF innerFormulaValue.boolean = Null THEN Value(FALSE)
                           ELSE Value(innerFormulaValue.boolean[1])

\* the accessor of the given name, applied
Accessor(fn, page, propertyName) ==
    CASE fn = "getRichTextField" -> getRichTextField(page, propertyName)
      [] fn = "getTitleField" -> getTitleField(page, propertyName)
      [] fn = "getNumberField" -> getNumberField(page, propertyName)
      [] fn = "getURLFieldAsString" -> getURLFieldAsString(page, propertyName)
      [] fn = "getSelectFieldAsString" -> getSelectFieldAsString(page, propertyName)
      [] fn = "getFormulaPropertyAsBoolean" -> getFormulaPropertyAsBoolean(page, propertyName)

Accessors == {"getRichTextField", "getTitleField", "getNumberField",
              "getURLFieldAsString", "getSelectFieldAsString",
              "getFormulaPropertyAsBoolean"}

\* property values of every kind, empty and filled
PropertyValues ==
    {[type |-> "rich_text", rich_text |-> text] : text \in {<<>>, <<[plain_text |-> <<"a">>]>>}}
    \cup {[type |-> "title", title |-> text] : text \in {<<>>, <<[plain_text |-> <<"a">>]>>}}
    \cup {[type |-> "number", number |-> n] :
             n \in {Null} \cup {<<k>> : k \in 0..MaxStoredNumber}}
    \cup {[type |-> "url", url |-> u] : u \in {Null, <<<<"u">>>>}}
    \cup {[type |-> "select", select |-> o] : o \in {Null, <<[name |-> <<"5">>]>>}}
    \cup {[type |-> "formula", formula |-> [type |-> "boolean", boolean |-> b]] :
             b \in {Null, <<TRUE>>, <<FALSE>>}}
    \cup {[type |-> "formula", formula |-> [type |-> "string", string |-> <<<<"a">>>>]]}

PropertyNames == {"Rating", "Duration"}

\* pages with none, one or both of the properties
AccessedPages ==
    {[properties |-> p] : p \in UNION {[names -> PropertyValues] : names \in SUBSET PropertyNames}}

CallAccessor ==
    /\ call.pc = "called"
    /\ call.fn \in Accessors
    /\ call' = [call EXCEPT !.pc = "returned",
                            !.result = Accessor(call.fn, call.page, call.propertyName)]
    /\ UNCHANGED exceptCall

InitAccessors ==
    /\ EnginesIdle
    /\ jobsRun = 0
    /\ paging = Idle /\ saved = Idle /\ library = Idle /\ cli = Idle /\ cron = Idle
    /\ \E fn \in Accessors, page \in AccessedPages, propertyName \in PropertyNames :
          call = [pc |-> "called", fn |-> fn, page |-> page,
                  propertyName |-> propertyName, result |-> Undefined]

NextAccessors == CallAccessor

SpecAccessors == InitAccessors /\ [][NextAccessors]_vars

----------------------------------------------------------------------------
\* Claims about the page field accessors

\* the kind of property each accessor is for
ExpectedKind ==
    [getRichTextField |-> "rich_text", getTitleField |-> "title",
     getNumberField |-> "number", getURLFieldAsString |-> "url",
     getSelectFieldAsString |-> "select", getFormulaPropertyAsBoolean |-> "formula"]

AccessorReturned == call.pc = "returned" /\ call.fn \in Accessors

\* the property the call names is on the page and of the accessor's kind
RightKind ==
    /\ call.propertyName \in DOMAIN call.page.properties
    /\ LET property == call.page.properties[call.propertyName]
       IN  /\ property.type = ExpectedKind[call.fn]
           /\ property.type = "formula" => property.formula.type = "boolean"

\* C17: an accessor called for a property that the page lacks or that is of
\* another kind fails with an assertion error and gives no value; called for
\* an empty property of its kind, the number and select accessors give
\* undefined, while a stored 0 and a stored option are given as they are,
\* and the boolean-formula accessor gives false.
C17_AccessorsFailFast ==
    AccessorReturned =>
        /\ ~RightKind <=> call.result.kind = "AssertionError"
        /\ RightKind =>
             LET property == call.page.properties[call.propertyName]
             IN  /\ call.fn = "getNumberField" =>
                      /\ property.number = Null => call.result = Undefined
                      /\ property.number # Null =>
                            /\ call.result.kind = "value"
                            /\ call.result.value = property.number
                 /\ call.fn = "getSelectFieldAsString" =>
                      /\ property.select = Null => call.result = Undefined
                      /\ property.select # Null =>
                            /\ call.result.kind = "value"
                            /\ call.result.value = <<property.select[1].name>>
                 /\ call.fn = "getFormulaPropertyAsBoolean" =>
                      /\ property.formula.boolean = Null => call.result = Value(FALSE)
                      /\ property.formula.boolean # Null =>
                            call.result.value = property.formula.boolean

\* the number accessor was called for a property that holds 0, on a page
\* that lacks the other property, and gave 0
C17_Witness ==
    /\ AccessorReturned
    /\ call.fn = "getNumberField"
    /\ DOMAIN call.page.properties = {call.propertyName}
    /\ call.page.properties[call.propertyName].type = "number"
    /\ call.page.properties[call.propertyName].number = <<0>>
    /\ call.result = Value(0)

----------------------------------------------------------------------------
\* jobs.ts: filterSpotifyLibraryWithNotionPages from the chunking on, with
\* addSavedAlbums, removeSavedAlbums and changeUserAlbums

MaxAdd == 21            \* IDs in the add list
MaxRemove == 1          \* IDs in the remove list

exceptLibrary == <<pages, pending, notionCalls, spotifyCalls, run,
                   jobsRun, paging, saved, call, cli, cron>>

\* the requests of the chunks of a list: changeUserAlbums has been called for
\* each and none has been answered
chunkRequests(method, list) ==
    LET chunks == chunkArray(list, spotifyChunkSizeLimit)
    IN  [i \in DOMAIN chunks |->
            [method |-> method, ids |-> chunks[i], state |-> "pending",
             promise |-> "pending"]]

AllFulfilled(requests) == \A k \in DOMAIN requests : requests[k].promise = "fulfilled"

\* await Promise.all([addPromise, removePromise]) after a request has settled
Awaited(lib) ==
    IF lib.pc # "awaiting" THEN lib
    ELSE IF \E k \in DOMAIN lib.requests : lib.requests[k].promise = "rejected"
    THEN [lib EXCEPT !.pc = "rejected"]
    ELSE IF AllFulfilled(lib.requests)
    THEN [lib EXCEPT !.pc = "resolved"]
    ELSE lib

\* The add and remove lists are chunked and changeUserAlbums is called for
\* every chunk; the function awaits them all.
FilterLibrary_Dispatch ==
    /\ library.pc = "start"
    /\ library' = Awaited([library EXCEPT
                              !.pc = "awaiting",
                              !.requests = chunkRequests("PUT", library.add)
                                           \o chunkRequests("DELETE", library.remove)])
    /\ UNCHANGED exceptLibrary

\* The catalog carries a chunk out and answers; changeUserAlbums returns.
ChangeUserAlbums_CarriedOut(k) ==
    /\ k \in DOMAIN library.requests
    /\ library.requests[k].state = "pending"
    /\ library' = Awaited([library EXCEPT !.requests[k].state = "carried",
                                          !.requests[k].promise = "fulfilled"])
    /\ UNCHANGED exceptLibrary

\* The catalog answers a chunk with an error status and changes nothing:
\* fetch resolves, the body is read, changeUserAlbums returns.
ChangeUserAlbums_ErrorResponse(k) ==
    /\ k \in DOMAIN library.requests
    /\ library.requests[k].state = "pending"
    /\ library' = Awaited([library EXCEPT !.requests[k].state = "refused",
                                          !.requests[k].promise = "fulfilled"])
    /\ UNCHANGED exceptLibrary

\* The request of a chunk fails on the network, or there is no access token:
\* changeUserAlbums throws.
ChangeUserAlbums_Throws(k) ==
    /\ k \in DOMAIN library.requests
    /\ library.requests[k].state = "pending"
    /\ library' = Awaited([library EXCEPT !.requests[k].state = "failed",
                                          !.requests[k].promise = "rejected"])
    /\ UNCHANGED exceptLibrary

InitLibrary ==
    /\ EnginesIdle
    /\ jobsRun = 0
    /\ paging = Idle /\ saved = Idle /\ call = Idle /\ cli = Idle /\ cron = Idle
    /\ \E a \in 0..MaxAdd, r \in 0..MaxRemove :
          library = [pc |-> "start", add |-> [i \in 1..a |-> i],
                     remove |-> [i \in 1..r |-> 100 + i], requests |-> <<>>]

NextLibrary ==
    \/ FilterLibrary_Dispatch
    \/ \E k \in 1..(MaxAdd + MaxRemove) : ChangeUserAlbums_CarriedOut(k)
    \/ \E k \in 1..(MaxAdd + MaxRemove) : ChangeUserAlbums_ErrorResponse(k)
    \/ \E k \in 1..(MaxAdd + MaxRemove) : ChangeUserAlbums_Throws(k)

SpecLibrary == InitLibrary /\ [][NextLibrary]_vars

----------------------------------------------------------------------------
\* Claims about the chunked library changes

\* the IDs of the requests of a method, in request order
Requested(method) ==
    LET rs == SelectSeq(library.requests, LAMBDA r : r.method = method)
    IN  Flat([i \in DOMAIN rs |-> rs[i].ids])

\* C18: the call resolves only when every add chunk and every remove chunk,
\* each of at most 20 IDs and together exactly the two lists, has been
\* carried out by the catalog; once a chunk request has failed, on the
\* network or by an error response of the catalog, the call does not
\* resolve, and it has rejected when no request is outstanding.
C18_ResolvesOnlyWhenAllCarriedOut ==
    /\ library.pc \in {"awaiting", "resolved", "rejected"} =>
          /\ \A k \in DOMAIN library.requests : Len(library.requests[k].ids) <= 20
          /\ Requested("PUT") = library.add
          /\ Requested("DELETE") = library.remove
    /\ library.pc = "resolved" =>
          \A k \in DOMAIN library.requests : library.requests[k].state = "carried"
    /\ (\E k \in DOMAIN library.requests :
            library.requests[k].state \in {"failed", "refused"}) =>
          /\ library.pc # "resolved"
          /\ (\A k \in DOMAIN library.requests : library.requests[k].state # "pending") =>
                library.pc = "rejected"

\* the chunks are at most 20 IDs long and make up the two lists
ChunksCoverLists ==
    library.pc \in {"awaiting", "resolved", "rejected"} =>
        /\ \A k \in DOMAIN library.requests : Len(library.requests[k].ids) <= 20
        /\ Requested("PUT") = library.add
        /\ Requested("DELETE") = library.remove

\* the call resolves only when every request has been answered, and rejects
\* when a request has failed on the network
ResolvesAfterAllAnswered ==
    /\ library.pc = "resolved" =>
          \A k \in DOMAIN library.requests :
              library.requests[k].state \in {"carried", "refused"}
    /\ (\E k \in DOMAIN library.requests : library.requests[k].state = "failed") =>
          library.pc = "rejected"

----------------------------------------------------------------------------
\* jobs.ts: main (the job dashboard) and the require.main entry

MaxPrompts == 3         \* times the job menu is shown

exceptCli == <<pages, pending, notionCalls, spotifyCalls, run,
               jobsRun, paging, saved, call, library, cron>>

\* the values of the choices of the job menu
MenuChoices == {"refresh_database_pages", "infer_artists", "infer_album_ids",
                "update_pages_with_album_art",
                "remove_duplicate_albums_by_album_properties",
                "change_column_names", "exit"}

\* the values main compares answers.job with and awaits a job for
AwaitedJobs == {"refresh_database_pages", "infer_artists", "update_album_ids",
                "update_pages_with_album_art",
                "remove_duplicate_albums_by_album_properties"}

\* the choices of the column menu
ColumnChoices == {"artist", "album_name", "album_id", "album_url",
                  "date_discovered", "rating", "genre"}

\* main().then(() => process.exit(0)).catch(err => { console.error(err); process.exit(1) })
Exit(c, status, printed) ==
    [c EXCEPT !.pc = "exited", !.exitCode = <<status>>,
              !.printed = IF printed THEN c.printed + 1 ELSE c.printed]

\* main is called and awaits the pages of the database.
Main_Loaded ==
    /\ cli.pc = "loading"
    /\ cli' = [cli EXCEPT !.pc = "menu"]
    /\ UNCHANGED exceptCli

\* Loading the pages fails: main throws.
Main_LoadFails ==
    /\ cli.pc = "loading"
    /\ cli' = Exit(cli, 1, TRUE)
    /\ UNCHANGED exceptCli

\* The menu is shown and answered; main starts the job chosen.  column is
\* the answer to the column menu, asked when the column names are changed.
Main_Prompt(job, column) ==
    /\ cli.pc = "menu"
    /\ cli.prompts < MaxPrompts
    /\ job \in MenuChoices
    /\ column \in ColumnChoices
    /\ LET asked == [cli EXCEPT !.prompts = cli.prompts + 1, !.job = job]
       IN  IF job \in AwaitedJobs
           THEN cli' = [asked EXCEPT !.pc = "running"]
           ELSE IF job = "change_column_names"
           THEN cli' = [asked EXCEPT !.renamed = cli.renamed \cup {column}]
           ELSE IF job = "exit"
           THEN cli' = Exit(asked, 0, FALSE)
           ELSE cli' = Exit([asked EXCEPT !.failed = "Invalid job"], 1, TRUE)
    /\ UNCHANGED exceptCli

\* The job main awaits returns: the loop goes round.
Main_JobReturns ==
    /\ cli.pc = "running"
    /\ cli' = [cli EXCEPT !.pc = "menu",
                          !.refreshed = IF cli.job = "refresh_database_pages"
                                        THEN cli.refreshed + 1 ELSE cli.refreshed]
    /\ UNCHANGED exceptCli

\* The job main awaits throws: nothing in main catches it.
Main_JobThrows ==
    /\ cli.pc = "running"
    /\ cli' = Exit([cli EXCEPT !.failed = cli.job], 1, TRUE)
    /\ UNCHANGED exceptCli

InitCli ==
    /\ EnginesIdle
    /\ jobsRun = 0
    /\ paging = Idle /\ saved = Idle /\ call = Idle /\ library = Idle /\ cron = Idle
    /\ cli = [pc |-> "loading", job |-> "none", prompts |-> 0, renamed |-> {},
              refreshed |-> 0, failed |-> "none", printed |-> 0, exitCode |-> <<>>]

NextCli ==
    \/ Main_Loaded
    \/ Main_LoadFails
    \/ \E job \in MenuChoices, column \in ColumnChoices : Main_Prompt(job, column)
    \/ Main_JobReturns
    \/ Main_JobThrows

SpecCli == InitCli /\ [][NextCli]_vars

----------------------------------------------------------------------------
\* Claims about the command-line dashboard

\* C19: when a job started from the menu has failed the error has been
\* printed and the process has not ended because of it: main is back at the
\* menu or further on, and the process has not exited with the status of a
\* failure.
C19_FailedJobReturnsToMenu ==
    cli.failed \in AwaitedJobs =>
        /\ cli.printed >= 1
        /\ cli.pc # "exited"
        /\ cli.exitCode # <<1>>

\* the error of a failed job is printed
FailedJobIsPrinted == cli.failed # "none" => cli.printed >= 1

\* the process ends with status 0 only through the exit choice
ExitsCleanlyOnlyOnExit == cli.exitCode = <<0>> => cli.job = "exit"

----------------------------------------------------------------------------
\* server.ts: the cron job of the album database (albumDBJobs, runAlbumDBJobs)

MaxTicks == 3           \* times the timer of albumDBJobs fires

exceptCron == <<pages, pending, notionCalls, spotifyCalls, run,
                jobsRun, paging, saved, call, library, cli>>

\* the keys of cronJobFlags, in the order runAlbumDBJobs reads them
CronJobNames == <<"import", "stale", "filter">>

\* cronJobFlags as the module creates it
cronJobFlags == [j \in {"import", "stale", "filter"} |-> j = "import"]

\* Position of the first job at or after position i that flags enables;
\* Len(CronJobNames) + 1 when there is none.
RECURSIVE NextEnabled(_, _)
NextEnabled(flags, i) ==
    IF i > Len(CronJobNames) THEN i
    ELSE IF flags[CronJobNames[i]] THEN i
    ELSE NextEnabled(flags, i + 1)

\* the runs active after one of them went on from position i: it awaits
\* the next enabled job, or it has returned
Proceed(flags, i, rest) ==
    IF NextEnabled(flags, i) > Len(CronJobNames)
    THEN rest
    ELSE Append(rest, CronJobNames[NextEnabled(flags, i)])

Remove(s, k) == [i \in 1..(Len(s) - 1) |-> IF i < k THEN s[i] ELSE s[i + 1]]

PositionOf(name) == CHOOSE i \in 1..Len(CronJobNames) : CronJobNames[i] = name

\* POST /startCronJob
StartCronJob ==
    /\ cron.pc = "serving"
    /\ cron' = [cron EXCEPT !.started = TRUE]
    /\ UNCHANGED exceptCron

\* POST /stopCronJob
StopCronJob ==
    /\ cron.pc = "serving"
    /\ cron' = [cron EXCEPT !.started = FALSE]
    /\ UNCHANGED exceptCron

\* POST /editCronJob with the names of newJobs as the keys of the body
EditCronJob(newJobs) ==
    /\ cron.pc = "serving"
    /\ cron' = [cron EXCEPT !.flags = [j \in DOMAIN cron.flags |-> j \in newJobs]]
    /\ UNCHANGED exceptCron

\* The timer fires and calls runAlbumDBJobs, which runs up to its first await.
Tick ==
    /\ cron.pc = "serving"
    /\ cron.started
    /\ cron.ticks < MaxTicks
    /\ cron' = [cron EXCEPT !.ticks = cron.ticks + 1,
                            !.runs = Proceed(cron.flags, 1, cron.runs)]
    /\ UNCHANGED exceptCron

\* The job the k-th active run awaits returns (the run*Job functions catch
\* their errors); the run goes on to the next enabled job or returns.
RunAlbumDBJobs_JobReturns(k) ==
    /\ cron.pc = "serving"
    /\ k \in 1..Len(cron.runs)
    /\ cron' = [cron EXCEPT !.runs = Proceed(cron.flags,
                                             PositionOf(cron.runs[k]) + 1,
                                             Remove(cron.runs, k))]
    /\ UNCHANGED exceptCron

InitCron ==
    /\ EnginesIdle
    /\ jobsRun = 0
    /\ paging = Idle /\ saved = Idle /\ call = Idle /\ library = Idle /\ cli = Idle
    /\ cron = [pc |-> "serving", started |-> FALSE, flags |-> cronJobFlags,
               runs |-> <<>>, ticks |-> 0]

NextCron ==
    \/ StartCronJob
    \/ StopCronJob
    \/ \E newJobs \in SUBSET {"import", "stale", "filter"} : EditCronJob(newJobs)
    \/ Tick
    \/ \E k \in 1..MaxTicks : RunAlbumDBJobs_JobReturns(k)

SpecCron == InitCron /\ [][NextCron]_vars

----------------------------------------------------------------------------
\* Claims about the cron job

\* C20: at no moment are two runs of runAlbumDBJobs active, whatever the
\* length of a run is relative to the interval of the timer.
C20_SingleRunAtATime == Len(cron.runs) <= 1

\* a run is started only by the timer of a started cron job, and every
\* active run awaits a job of cronJobFlags
RunsAwaitKnownJobs ==
    /\ Len(cron.runs) <= cron.ticks
    /\ \A k \in 1..Len(cron.runs) : cron.runs[k] \in {"import", "stale", "filter"}

----------------------------------------------------------------------------
\* Claims about the completion and the repetition of an import

\* C21: importSavedSpotifyAlbums resolves only after every page creation it
\* issued has completed: once the run has returned no pages.create request
\* of it is outstanding, so a job started afterwards reads all created pages.
C21_ResolvesAfterAllCreations ==
    run.job = "import" => pending = <<>>

\* the creations are issued together, one per album to import, none waiting
\* for another
CreationsIssuedTogether ==
    run.job = "import" =>
        /\ Len(notionCalls) = Len(run.selected)
        /\ Len(pages) + Len(pending) = Len(run.databasePages) + Len(run.selected)

\* no two pages of the list have the same AlbumKey
NoTwoShareKey(ps) ==
    \A i, j \in DOMAIN ps : PageKey(ps[i]) = PageKey(ps[j]) => i = j

\* C25: if no two pages of the database share an AlbumKey before an import
\* run, no two pages share one after it, whatever the saved-album list is.
C25_ImportAddsNoKeyDuplicate ==
    (run.job = "import" /\ NoTwoShareKey(run.databasePages)) =>
        NoTwoShareKey(getAllDatabasePages)

\* no page created by an import run has the AlbumKey of a page that was in
\* the database before the run
CreatedKeysAreNewToDatabase ==
    run.job = "import" =>
        \A i \in DOMAIN pages : i > Len(run.databasePages) =>
            \A j \in DOMAIN run.databasePages :
                PageKey(pages[i]) # PageKey(run.databasePages[j])

----------------------------------------------------------------------------
\* A job run again with the arguments of its last run (server.ts: the cron
\* job and the job routes hand the same saved albums to every run until the
\* albums are loaded again)

MaxRepeats == 2         \* runs of the job in one behaviour

\* The run has returned and the requests it issued have been carried out;
\* its arguments are kept for the next run.
RunReturns ==
    /\ run.job # "none"
    /\ pending = <<>>
    /\ jobsRun + 1 < MaxRepeats
    /\ jobsRun' = jobsRun + 1
    /\ run' = [NoRun EXCEPT !.savedAlbums = run.savedAlbums,
                            !.overwriteIDs = run.overwriteIDs]
    /\ notionCalls' = <<>>
    /\ spotifyCalls' = <<>>
    /\ UNCHANGED <<pages, pending, paging, saved, call, library, cli, cron>>

\* the arguments of a run: any for the first, those of the last run after it
SameArguments(savedAlbums, overwriteIDs) ==
    jobsRun > 0 => (savedAlbums = run.savedAlbums /\ overwriteIDs = run.overwriteIDs)

NextStaleTwice ==
    \/ \E savedAlbums \in SavedAlbumLists, overwriteIDs \in BOOLEAN :
          /\ SameArguments(savedAlbums, overwriteIDs)
          /\ UpdateStaleNotionAlbumsFromSpotify(savedAlbums, overwriteIDs)
    \/ RunReturns

SpecStaleTwice == InitStale /\ [][NextStaleTwice]_vars

NextImportTwice ==
    \/ \E savedAlbums \in SavedAlbumLists :
          /\ SameArguments(savedAlbums, FALSE)
          /\ ImportSavedSpotifyAlbums(savedAlbums)
    \/ NotionCreatesPage
    \/ RunReturns

SpecImportTwice == InitImport /\ [][NextImportTwice]_vars

----------------------------------------------------------------------------
\* Claims about running a job twice

\* C23: after a stale-album run whose writes all succeeded, a second run
\* with the same saved albums and the same mode finds no stale page and
\* issues no write, in both modes and for every saved-album list.
C23_StaleConvergesInOnePass ==
    (jobsRun >= 1 /\ run.job = "stale") =>
        (run.selected = <<>> /\ notionCalls = <<>>)

\* no album ID occurs twice in the list
NoRepeatedID(savedAlbums) ==
    \A i, j \in DOMAIN savedAlbums : savedAlbums[i].id = savedAlbums[j].id => i = j

\* the second run finds nothing to do when no album ID is repeated in the
\* saved-album list, and in append mode for every list
StaleConvergesWithoutRepeatedID ==
    (jobsRun >= 1 /\ run.job = "stale"
        /\ (NoRepeatedID(run.savedAlbums) \/ ~run.overwriteIDs)) =>
        (run.selected = <<>> /\ notionCalls = <<>>)

\* C24: once an import run and all the page creations it issued have
\* succeeded, a second import run with the same saved-album list selects no
\* album and creates no page.
C24_ImportIsIdempotent ==
    (jobsRun >= 1 /\ run.job = "import") =>
        (run.selected = <<>> /\ notionCalls = <<>> /\ pending = <<>>)

\* the first run created pages for two albums of different keys next to a
\* page that was there before, and the second run has returned
C24_Witness ==
    /\ jobsRun = 1
    /\ run.job = "import"
    /\ run.savedAlbums = <<Album3, Album1>>
    /\ Len(pages) = 3
    /\ pages[2].albumId = Id3
    /\ pages[3].albumId = Id1

----------------------------------------------------------------------------
\* server.ts: the session (spotify, cachedSavedAlbums) and the routes
\* /populateToken, /loadAlbums and /signout

\* sizes of the user's library the session is run against
SessionLibraries == {0, limit, MaxSavedTotal}

\* the session before anybody signed in: no access token, nothing cached, no
\* request being served
NoSession(total) ==
    [pc |-> "idle", spotify |-> FALSE, cachedSavedAlbums |-> <<>>,
     library |-> total, probes |-> <<>>, totalAlbums |-> 0, requests |-> <<>>,
     arrivals |-> <<>>, outcome |-> "pending", savedAlbums |-> <<>>,
     localSavedAlbums |-> <<>>, ticks |-> 0]

\* POST /populateToken.  A request is served between two awaits of the
\* handlers in progress: never between the token test of /loadAlbums and the
\* one of getSavedUserAlbums, which run without an await in between.
PopulateToken ==
    /\ saved.pc # "start"
    /\ saved' = [saved EXCEPT !.spotify = TRUE]
    /\ UNCHANGED exceptSaved

\* POST /signout
Signout ==
    /\ saved.pc # "start"
    /\ saved' = [saved EXCEPT !.spotify = FALSE, !.cachedSavedAlbums = <<>>]
    /\ UNCHANGED exceptSaved

\* POST /loadAlbums arrives: without an access token it is answered with an
\* error, otherwise getSavedUserAlbums is called.
LoadAlbums_Request ==
    /\ saved.pc = "idle"
    /\ IF ~saved.spotify
       THEN saved' = [saved EXCEPT !.outcome = "no token"]
       ELSE saved' = [saved EXCEPT !.pc = "start", !.probes = <<>>, !.totalAlbums = 0,
                                   !.requests = <<>>, !.arrivals = <<>>,
                                   !.outcome = "pending", !.savedAlbums = <<>>]
    /\ UNCHANGED exceptSaved

\* The diagnostic query is answered after a sign-out: with albums to fetch
\* the loop reads spotify.currentUser of undefined and the function throws.
GetSavedUserAlbums_ProbeResolvesSignedOut ==
    /\ saved.pc = "probing"
    /\ ~saved.spotify
    /\ savedAlbumsPage(saved.library, diagnosticQueryAlbumLimit, 0).total > 0
    /\ saved' = [saved EXCEPT !.pc = "failed", !.outcome = "threw"]
    /\ UNCHANGED exceptSaved

\* The diagnostic query is answered and the loop can run.
GetSavedUserAlbums_ProbeResolvesInSession ==
    /\ saved.spotify \/ savedAlbumsPage(saved.library, diagnosticQueryAlbumLimit, 0).total = 0
    /\ GetSavedUserAlbums_ProbeResolves

\* getSavedUserAlbums has returned: /loadAlbums answers and caches the albums.
LoadAlbums_Caches ==
    /\ saved.pc = "returned"
    /\ saved' = [saved EXCEPT !.pc = "idle", !.cachedSavedAlbums = saved.savedAlbums]
    /\ UNCHANGED exceptSaved

\* getSavedUserAlbums has thrown: the error goes to the error handler.
LoadAlbums_Throws ==
    /\ saved.pc = "failed"
    /\ saved' = [saved EXCEPT !.pc = "idle"]
    /\ UNCHANGED exceptSaved

\* A tick of the cron job: its jobs fetch the saved albums into
\* localSavedAlbums when a token is populated and leave the cache alone.
CronTick_LoadsLocally ==
    /\ saved.pc # "start"
    /\ saved.ticks < MaxTicks
    /\ saved' = [saved EXCEPT !.ticks = saved.ticks + 1,
                              !.localSavedAlbums =
                                  IF saved.spotify
                                  THEN [i \in 1..saved.library |-> i]
                                  ELSE saved.localSavedAlbums]
    /\ UNCHANGED exceptSaved

InitSession ==
    /\ EnginesIdle
    /\ jobsRun = 0
    /\ paging = Idle /\ call = Idle /\ library = Idle /\ cli = Idle /\ cron = Idle
    /\ \E total \in SessionLibraries : saved = NoSession(total)

NextSession ==
    \/ PopulateToken
    \/ Signout
    \/ LoadAlbums_Request
    \/ GetSavedUserAlbums_Call
    \/ GetSavedUserAlbums_ProbeResolvesInSession
    \/ GetSavedUserAlbums_ProbeResolvesSignedOut
    \/ GetSavedUserAlbums_ProbeRejects
    \/ \E k \in 1..Ceil(MaxSavedTotal, limit) : GetSavedUserAlbums_PageResolves(k)
    \/ \E k \in 1..Ceil(MaxSavedTotal, limit) : GetSavedUserAlbums_PageRejects(k)
    \/ LoadAlbums_Caches
    \/ LoadAlbums_Throws
    \/ CronTick_LoadsLocally

SpecSession == InitSession /\ [][NextSession]_vars

----------------------------------------------------------------------------
\* Claims about the session

\* C27: in every state in which no access token is held, before any sign-in
\* or after /signout, the cached saved-album list is empty.
C27_NoTokenNoCachedAlbums ==
    ~saved.spotify => saved.cachedSavedAlbums = <<>>

\* /signout itself clears both, and the cron job never writes the cache
SignoutClearsSession ==
    [][/\ (saved.spotify /\ ~saved'.spotify) => saved'.cachedSavedAlbums = <<>>
       /\ saved'.ticks # saved.ticks =>
             saved'.cachedSavedAlbums = saved.cachedSavedAlbums]_vars

----------------------------------------------------------------------------
\* server.ts: one run of runAlbumDBJobs, job by job (runImportingJob,
\* runStaleAlbumUpdaterJob, runSpotifyLibraryFilteringJob)

\* an entry of the record kept of a run: the job, what happened, and the
\* flag and the token as they were read
RunEvent(job, event, flag, token) ==
    [job |-> job, event |-> event, flag |-> flag, token |-> token]

\* runAlbumDBJobs from its i-th if statement on, up to the next await that
\* waits for a job or to the end: a job whose flag is off is not called, a
\* job called without an access token warns and returns.
RECURSIVE RunJobsFrom(_, _, _)
RunJobsFrom(c, i, token) ==
    IF i > Len(CronJobNames) THEN [c EXCEPT !.at = "done"]
    ELSE LET job == CronJobNames[i]
         IN  IF ~c.flags[job]
             THEN RunJobsFrom([c EXCEPT !.log = Append(@, RunEvent(job, "off", FALSE, token))],
                              i + 1, token)
             ELSE IF ~token
             THEN RunJobsFrom([c EXCEPT !.log = Append(@, RunEvent(job, "skipped", TRUE, FALSE))],
                              i + 1, token)
             ELSE [c EXCEPT !.at = job,
                            !.log = Append(@, RunEvent(job, "started", TRUE, TRUE))]

\* variant: the job has no try / catch, its error ends the run
JobSettled_Rethrowing(c, threw, token) ==
    IF threw
    THEN [c EXCEPT !.at = "done", !.log = Append(@, RunEvent(c.at, "error", TRUE, token))]
    ELSE RunJobsFrom([c EXCEPT !.log = Append(@, RunEvent(c.at, "ok", TRUE, token))],
                     PositionOf(c.at) + 1, token)

\* The job awaited has returned, or it has thrown and the catch of the job
\* has logged the error; runAlbumDBJobs goes on.
JobSettled(c, threw, token) ==
    RunJobsFrom([c EXCEPT !.log = Append(@, RunEvent(c.at, IF threw THEN "error" ELSE "ok",
                                                     TRUE, token))],
                PositionOf(c.at) + 1, token)

\* The timer fires.  The run it starts is followed when no run is being
\* followed; otherwise the new run goes on beside the one followed.
RunAlbumDBJobs_Tick ==
    /\ cron.pc = "serving"
    /\ cron.started
    /\ cron.ticks < MaxTicks
    /\ IF cron.at \in {"idle", "done"}
       THEN cron' = RunJobsFrom([cron EXCEPT !.ticks = cron.ticks + 1, !.log = <<>>],
                                1, saved.spotify)
       ELSE cron' = [cron EXCEPT !.ticks = cron.ticks + 1]
    /\ UNCHANGED exceptCron

\* The job the run awaits settles.
RunAlbumDBJobs_JobSettles(threw) ==
    /\ cron.pc = "serving"
    /\ cron.at \in Range(CronJobNames)
    /\ cron' = JobSettled(cron, threw, saved.spotify)
    /\ UNCHANGED exceptCron

InitTick ==
    /\ EnginesIdle
    /\ jobsRun = 0
    /\ paging = Idle /\ call = Idle /\ library = Idle /\ cli = Idle
    /\ saved = NoSession(0)
    /\ cron = [pc |-> "serving", started |-> FALSE, flags |-> cronJobFlags,
               ticks |-> 0, at |-> "idle", log |-> <<>>]

NextTick ==
    \/ StartCronJob
    \/ StopCronJob
    \/ \E newJobs \in SUBSET Range(CronJobNames) : EditCronJob(newJobs)
    \/ PopulateToken
    \/ Signout
    \/ RunAlbumDBJobs_Tick
    \/ \E threw \in BOOLEAN : RunAlbumDBJobs_JobSettles(threw)

SpecTick == InitTick /\ [][NextTick]_vars

----------------------------------------------------------------------------
\* Claims about one run of the cron job

\* C22: within one run the jobs are taken in the order import, stale-album
\* update, library filter; a job starts only after the job started before it
\* has settled; a job is started exactly when its flag is on and an access
\* token is held, and is passed over otherwise; a job that threw is followed
\* by the later jobs like one that returned, so a finished run has taken
\* every job.
C22_JobsInOrderErrorsIsolated ==
    LET L == cron.log
        settled == {"ok", "error"}
    IN  /\ \A i, j \in DOMAIN L : i < j =>
              /\ PositionOf(L[i].job) <= PositionOf(L[j].job)
              /\ L[i].job = L[j].job =>
                    (j = i + 1 /\ L[i].event = "started" /\ L[j].event \in settled)
        /\ \A i \in DOMAIN L : L[i].event = "started" =>
              \A k \in 1..(i - 1) : L[k].event = "started" =>
                  (L[k + 1].job = L[k].job /\ L[k + 1].event \in settled)
        /\ \A i \in DOMAIN L : L[i].event \notin settled =>
              /\ L[i].event = "started" <=> (L[i].flag /\ L[i].token)
              /\ L[i].event = "off" <=> ~L[i].flag
              /\ L[i].event = "skipped" <=> (L[i].flag /\ ~L[i].token)
        /\ cron.at \in Range(CronJobNames) =>
              (L # <<>> /\ L[Len(L)] = RunEvent(cron.at, "started", TRUE, TRUE))
        /\ cron.at = "done" =>
              \A n \in DOMAIN CronJobNames :
                  \E i \in DOMAIN L : L[i].job = CronJobNames[n] /\ L[i].event \notin settled

\* all three jobs were enabled; the importing job threw, and the two later
\* jobs were started and returned
C22_Witness ==
    /\ cron.at = "done"
    /\ [i \in DOMAIN cron.log |-> cron.log[i].event]
          = <<"started", "error", "started", "ok", "started", "ok">>

----------------------------------------------------------------------------
\* defs.ts: testMatchable, defaultGenreConversionModel; helpers.ts:
\* convertSpotifyGenresIntoNotionGenres

MaxGenres == 2          \* length of a genre list handed to the conversion
MaxConversions == 2     \* conversions in one process

\* A regular expression of the model, written /.../gmi in the source: the
\* alternatives it matches, in lower case (flag i), each a text in which
\* "\\w" stands for a word character.  The expression object keeps
\* lastIndex between calls of test (flag g); id names the object.
Regex(id, alts) == [regex |-> TRUE, id |-> id, alts |-> alts]

\* a matchable that is a string
Literal(text) == [regex |-> FALSE, id |-> 0, alts |-> <<text>>]

Rule(matchables, notionGenres) == [matchables |-> matchables, notionGenres |-> notionGenres]

NumRegex == 24

defaultGenreConversionModel ==
    <<
       Rule(<<Regex(1, <<<<"a", "m", "b", "i", "e", "n", "t">>>>)>>,
            <<"Ambient", "Chill">>),
       Rule(<<Regex(2, <<<<"c", "h", "i", "l", "l">>>>)>>,
            <<"Chill">>),
       Rule(<<Regex(3, <<<<"c", "l", "a", "s", "s", "i", "c", "a", "l">>>>)>>,
            <<"Classical", "Instrumental">>),
       Rule(<<Regex(4, <<<<"r", "o", "c", "k">>>>)>>,
            <<"Rock", "Singer">>),
       Rule(<<Regex(5, <<<<"p", "o", "p">>>>)>>,
            <<"Pop", "Singer">>),
       Rule(<<Regex(6, <<<<"e", "l", "e", "c", "t", "r", "o", "n", "i", "c">>>>)>>,
            <<"Electronic">>),
       Rule(<<Regex(7, <<<<"v", "g", "m">>>>)>>,
            <<"Video Game Music">>),
       Rule(<<Regex(8, <<<<"j", "a", "z", "z">>>>)>>,
            <<"Jazz", "Instrumental">>),
       Rule(<<Regex(9, <<<<"s", "m", "o", "o", "t", "h", " ", "j", "a", "z", "z">>>>)>>,
            <<"Smooth Jazz">>),
       Rule(<<Regex(10, <<<<"f", "u", "s", "i", "o", "n">>>>)>>,
            <<"Fusion">>),
       Rule(<<Regex(11, <<<<"g", "u", "i", "t", "a", "r">>>>)>>,
            <<"Guitar">>),
       Rule(<<Regex(12, <<<<"f", "u", "n", "k">>>>)>>,
            <<"Funk">>),
       Rule(<<Regex(13, <<<<"d", "i", "s", "c", "o">>>>)>>,
            <<"Disco">>),
       Rule(<<Regex(14, <<<<"m", "o", "v", "i", "e">>>>)>>,
            <<"Movie Soundtrack">>),
       Rule(<<Regex(15, <<<<"\\w", "w", "a", "v", "e">>>>)>>,
            <<"Vaporwave">>),
       Rule(<<Regex(16, <<<<"r", "&", "b">>>>)>>,
            <<"R&B">>),
       Rule(<<Regex(17, <<<<"l", "a", "t", "i", "n">>>>)>>,
            <<"Latin">>),
       Rule(<<Regex(18, <<<<"s", "o", "u", "l">>>>)>>,
            <<"Soul">>),
       Rule(<<Regex(19, <<<<"l", "o", "-", "f", "i">>, <<"l", "o", "f", "i">>>>)>>,
            <<"Lo-Fi">>),
       Rule(<<Regex(20, <<<<"i", "n", "s", "t", "r", "u", "m", "e", "n", "t", "a", "l">>>>)>>,
            <<"Instrumental">>),
       Rule(<<Regex(21, <<<<"h", "i", "p", " ", "h", "o", "p">>>>), Regex(22, <<<<"r", "a", "p">>>>)>>,
            <<"Hip Hop">>),
       Rule(<<Regex(23, <<<<"b", "e", "a", "t", "s">>>>)>>,
            <<"Beats">>),
       Rule(<<Regex(24, <<<<"m", "e", "t", "a", "l">>, <<"g", "r", "u", "n", "g", "e">>>>)>>,
            <<"Metal", "Rock", "Singer">>),
       Rule(<<Literal(<<"T", "r", "i", "p", " ", "H", "o", "p">>)>>,
            <<"Beats", "Trip Hop">>)
    >>

IsWordChar(c) == c \notin {" ", "-", "&"}

\* the alternative matches the text from position p (counted from 1) on
MatchesAt(alt, text, p) ==
    /\ p + Len(alt) - 1 <= Len(text)
    /\ \A k \in DOMAIN alt :
          IF alt[k] = "\\w" THEN IsWordChar(text[p + k - 1])
          ELSE alt[k] = LowerChar(text[p + k - 1])

\* RegExp.prototype.test of an expression with the flag g: the search starts
\* at lastIndex; a match leaves lastIndex behind the match, a failure sets
\* it to 0.
RegExpTest(matchable, string, lastIndex) ==
    LET alts == matchable.alts
        starts == {p \in (lastIndex + 1)..Len(string) :
                      \E a \in DOMAIN alts : MatchesAt(alts[a], string, p)}
    IN  IF starts = {} THEN [found |-> FALSE, lastIndex |-> 0]
        ELSE LET p == CHOOSE q \in starts : \A r \in starts : q <= r
                 a == CHOOSE b \in DOMAIN alts :
                         /\ MatchesAt(alts[b], string, p)
                         /\ \A d \in 1..(b - 1) : ~MatchesAt(alts[d], string, p)
             IN  [found |-> TRUE, lastIndex |-> p - 1 + Len(alts[a])]

\* variant: every test of an expression starts at the beginning of the text
testMatchable_FromStart(matchable, string, lastIndex) ==
    IF ~matchable.regex
    THEN [found |-> ToLowerCase(Trim(matchable.alts[1])) = ToLowerCase(string),
          lastIndex |-> lastIndex]
    ELSE [found |-> RegExpTest(matchable, string, 0).found,
          lastIndex |-> lastIndex]

\* testMatchable; lastIndex is the lastIndex of every expression object,
\* by id, before the call, and the result carries it as it is afterwards
testMatchable(matchable, string, lastIndex) ==
    IF ~matchable.regex
    THEN [found |-> ToLowerCase(Trim(matchable.alts[1])) = ToLowerCase(string),
          lastIndex |-> lastIndex]
    ELSE LET t == RegExpTest(matchable, string, lastIndex[matchable.id])
         IN  [found |-> t.found,
              lastIndex |-> [lastIndex EXCEPT ![matchable.id] = t.lastIndex]]

\* matchables.some(matchable => testMatchable(matchable, spotifyGenre)), from
\* the k-th matchable on; a rule with one matchable is tested once
RECURSIVE SomeMatch(_, _, _, _)
SomeMatch(matchables, k, spotifyGenre, lastIndex) ==
    IF k > Len(matchables) THEN [found |-> FALSE, lastIndex |-> lastIndex]
    ELSE LET t == testMatchable(matchables[k], spotifyGenre, lastIndex)
         IN  IF t.found THEN t
             ELSE SomeMatch(matchables, k + 1, spotifyGenre, t.lastIndex)

\* The inner loop of the conversion for one genre: every expression of the
\* model is tested in turn.  No expression object occurs in two rules, so
\* the test of a rule reads and writes the lastIndex of its own expressions
\* only; st holds inferredNotionGenres in insertion order and the lastIndex
\* of the expression objects.
ConvertGenre(spotifyGenre, conversionModel, st) ==
    LET tested == [e \in DOMAIN conversionModel |->
                      SomeMatch(conversionModel[e].matchables, 1, spotifyGenre, st.lastIndex)]
        RuleOf(id) == CHOOSE e \in DOMAIN conversionModel :
                          \E k \in DOMAIN conversionModel[e].matchables :
                              conversionModel[e].matchables[k].id = id
        added == Flat([e \in DOMAIN conversionModel |->
                          IF tested[e].found THEN conversionModel[e].notionGenres ELSE <<>>])
    IN  [inferredNotionGenres |-> Dedup(st.inferredNotionGenres \o added),
         lastIndex |-> [id \in DOMAIN st.lastIndex |-> tested[RuleOf(id)].lastIndex[id]]]

\* the outer loop of the conversion, from the g-th genre on
RECURSIVE ConvertFrom(_, _, _, _)
ConvertFrom(genres, conversionModel, g, st) ==
    IF g > Len(genres) THEN st
    ELSE ConvertFrom(genres, conversionModel, g + 1,
                     ConvertGenre(genres[g], conversionModel, st))

convertSpotifyGenresIntoNotionGenres(genres, conversionModel, lastIndex) ==
    ConvertFrom(genres, conversionModel, 1,
                [inferredNotionGenres |-> <<>>, lastIndex |-> lastIndex])

\* genres of artists as the catalog names them
GenreRock == <<"r", "o", "c", "k">>
GenreSmoothJazz == <<"s", "m", "o", "o", "t", "h", " ", "j", "a", "z", "z">>
GenreHipHop == <<"h", "i", "p", " ", "h", "o", "p">>
GenreTripHop == <<"t", "r", "i", "p", " ", "h", "o", "p">>
GenreVaporwave == <<"v", "a", "p", "o", "r", "w", "a", "v", "e">>
GenreFolk == <<"f", "o", "l", "k">>

SpotifyGenres == {GenreRock, GenreSmoothJazz, GenreHipHop, GenreTripHop,
                  GenreVaporwave, GenreFolk}

\* The conversion is called with the default model.
ConvertSpotifyGenresIntoNotionGenres(genres) ==
    /\ call.pc = "genres"
    /\ Len(call.conversions) < MaxConversions
    /\ LET r == convertSpotifyGenresIntoNotionGenres(genres, defaultGenreConversionModel,
                                                     call.lastIndex)
       IN  call' = [call EXCEPT !.lastIndex = r.lastIndex,
                                !.conversions = Append(@, [genres |-> genres,
                                                           notionGenres |-> r.inferredNotionGenres])]
    /\ UNCHANGED exceptCall

\* the module has been loaded: every expression object has lastIndex 0
InitGenres ==
    /\ EnginesIdle
    /\ jobsRun = 0
    /\ paging = Idle /\ saved = Idle /\ library = Idle /\ cli = Idle /\ cron = Idle
    /\ call = [pc |-> "genres", lastIndex |-> [id \in 1..NumRegex |-> 0],
               conversions |-> <<>>]

NextGenres ==
    \E genres \in SeqUpTo(SpotifyGenres, MaxGenres) :
        ConvertSpotifyGenresIntoNotionGenres(genres)

SpecGenres == InitGenres /\ [][NextGenres]_vars

----------------------------------------------------------------------------
\* Claims about the genre conversion

\* the pattern of the matchable matches the genre
PatternMatches(matchable, genre) ==
    IF matchable.regex THEN RegExpTest(matchable, genre, 0).found
    ELSE ToLowerCase(Trim(matchable.alts[1])) = ToLowerCase(genre)

\* the conversion holds the Notion genres of every rule one of whose
\* patterns matches one of its genres
EveryMatchingRuleContributes(conversion) ==
    \A g \in DOMAIN conversion.genres, e \in DOMAIN defaultGenreConversionModel :
        LET rule == defaultGenreConversionModel[e]
        IN  (\E k \in DOMAIN rule.matchables :
                 PatternMatches(rule.matchables[k], conversion.genres[g])) =>
            Range(rule.notionGenres) \subseteq Range(conversion.notionGenres)

\* C26: the conversion with the default model is a function of the genre
\* list alone: two conversions of one list in a process return the same
\* Notion genres, and a genre that a rule's pattern matches always
\* contributes the Notion genres of the rule.
C26_ConversionIsPure ==
    /\ \A i, j \in DOMAIN call.conversions :
          call.conversions[i].genres = call.conversions[j].genres =>
              call.conversions[i].notionGenres = call.conversions[j].notionGenres
    /\ \A i \in DOMAIN call.conversions : EveryMatchingRuleContributes(call.conversions[i])

\* the first conversion of a process is right, and no conversion returns a
\* Notion genre without a rule whose pattern matches
FirstConversionIsRight ==
    /\ call.conversions # <<>> => EveryMatchingRuleContributes(call.conversions[1])
    /\ \A i \in DOMAIN call.conversions :
          \A n \in Range(call.conversions[i].notionGenres) :
              \E g \in DOMAIN call.conversions[i].genres, e \in DOMAIN defaultGenreConversionModel :
                  /\ n \in Range(defaultGenreConversionModel[e].notionGenres)
                  /\ \E k \in DOMAIN defaultGenreConversionModel[e].matchables :
                        PatternMatches(defaultGenreConversionModel[e].matchables[k],
                                       call.conversions[i].genres[g])

----------------------------------------------------------------------------
\* jobs.ts: filterSpotifyLibraryWithNotionPages against the user's library
\* (narrowing by the snapshot, chunked changes, the library's content)

\* prior contents of the library: IDs of the add list, of the remove list
\* and of neither
NarrowLibraries == {{}, {1}, {1, 101}, {101, 200}, {2, 101, 200}}

\* variant: the catalog ignores DELETE requests
applyChunk_AddOnly(content, request) ==
    IF request.method = "PUT" THEN content \cup Range(request.ids) ELSE content

\* the library after the catalog carried out PUT or DELETE /me/albums?ids=...
applyChunk(content, request) ==
    IF request.method = "PUT" THEN content \cup Range(request.ids)
    ELSE content \ Range(request.ids)

\* The lists of the filter function are narrowed by the snapshot.
FilterLibrary_Narrow ==
    /\ library.pc = "lists"
    /\ LET originalSavedAlbumIDs == library.snapshot
       IN  library' = [library EXCEPT
                          !.pc = "start",
                          !.add = narrowedAdd(library.lists.add, originalSavedAlbumIDs),
                          !.remove = narrowedRemove(library.lists.remove, originalSavedAlbumIDs)]
    /\ UNCHANGED exceptLibrary

\* The catalog carries a chunk out, changing the library, and answers;
\* changeUserAlbums returns.
ChangeUserAlbums_Applied(k) ==
    /\ k \in DOMAIN library.requests
    /\ library.requests[k].state = "pending"
    /\ library' = Awaited([library EXCEPT
                              !.requests[k].state = "carried",
                              !.requests[k].promise = "fulfilled",
                              !.content = applyChunk(library.content, library.requests[k]),
                              !.completed = Append(library.completed, k)])
    /\ UNCHANGED exceptLibrary

InitNarrow ==
    /\ EnginesIdle
    /\ jobsRun = 0
    /\ paging = Idle /\ saved = Idle /\ call = Idle /\ cli = Idle /\ cron = Idle
    /\ \E a \in 0..MaxAdd, r \in 0..MaxRemove, L \in NarrowLibraries :
          library = [pc |-> "lists",
                     lists |-> [add |-> [i \in 1..a |-> i],
                                remove |-> [i \in 1..r |-> 100 + i]],
                     snapshot |-> Ascending(L), before |-> L, content |-> L,
                     add |-> <<>>, remove |-> <<>>, requests |-> <<>>,
                     completed |-> <<>>]

NextNarrow ==
    \/ FilterLibrary_Narrow
    \/ FilterLibrary_Dispatch
    \/ \E k \in 1..(MaxAdd + MaxRemove) : ChangeUserAlbums_Applied(k)
    \/ \E k \in 1..(MaxAdd + MaxRemove) : ChangeUserAlbums_ErrorResponse(k)
    \/ \E k \in 1..(MaxAdd + MaxRemove) : ChangeUserAlbums_Throws(k)

SpecNarrow == InitNarrow /\ [][NextNarrow]_vars

----------------------------------------------------------------------------
\* Claims about the library after a filter run

\* every request of the run has been carried out by the catalog
AllCarriedOut == \A k \in DOMAIN library.requests : library.requests[k].state = "carried"

----------------------------------------------------------------------------
\* Claims about the dispatch of the menu choices

\* C29: every choice of the job menu other than Exit is dispatched to its
\* job: after such a choice main is running the job or back at the menu (or
\* the job has thrown), and the "Invalid job" assertion has not failed.
C29_EveryMenuChoiceDispatched ==
    cli.job \in MenuChoices \ {"exit"} =>
        /\ cli.failed # "Invalid job"
        /\ cli.pc = "exited" => cli.failed = cli.job

\* every choice but "infer_album_ids" is dispatched
OtherChoicesDispatched ==
    cli.job \in MenuChoices \ {"exit", "infer_album_ids"} =>
        /\ cli.failed # "Invalid job"
        /\ cli.pc = "exited" => cli.failed = cli.job

----------------------------------------------------------------------------
\* Claims about the IDs sent to the catalog

\* C30: every ID of every add and remove chunk sent to the catalog is a
\* non-empty catalog ID, also when the filter runs after stale-album runs
\* that wrote to pages whose ID field was empty.
C30_NoEmptyIDSent ==
    \A k \in DOMAIN spotifyCalls :
        spotifyCalls[k].method \in {"PUT", "DELETE"} =>
            \A i \in DOMAIN spotifyCalls[k].ids : spotifyCalls[k].ids[i] # <<>>

\* a filter run that is the first job sends no empty ID: a page whose ID
\* field is empty is passed over
NoEmptyIDSentByFirstJob ==
    jobsRun = 0 =>
        \A k \in DOMAIN spotifyCalls :
            \A i \in DOMAIN spotifyCalls[k].ids : spotifyCalls[k].ids[i] # <<>>

\* an overwriting stale-album run leaves no empty ID in a page it writes
OverwriteWritesNoEmptyID ==
    (run.job = "stale" /\ run.overwriteIDs) =>
        \A k \in DOMAIN notionCalls :
            <<>> \notin Range(getSpotifyAlbumIDsFromNotionPage(pages[notionCalls[k].page_id]))

====
